---- MODULE Spec2Model ----
(***************************************************************************)
(* A model of the retrieval and context-assembly pipeline of citybrain:    *)
(* the segmenter (utils/chunking.py), the intent parser                    *)
(* (retrieval/parser.py), the semantic retriever                           *)
(* (retrieval/zoning_search.py), the spatial filter                        *)
(* (retrieval/geospatial.py) and the packet assembler                      *)
(* (retrieval/scenario.py).  Each component has its own variables and its  *)
(* own specification; the variables of the other components stay idle.     *)
(***************************************************************************)
EXTENDS Integers, Sequences, FiniteSets, TLC

VARIABLES
    \* ---- chunk_text (utils/chunking.py) ----
    tiktoken,        \* whether the tiktoken import succeeded (chunking.py:3-6)
    tokens,          \* the token sequence of the text (words / enc.encode(text))
    max_tokens,      \* parameter max_tokens
    overlap_tokens,  \* parameter overlap_tokens
    start,           \* loop variable start (line 27) / i (line 39)
    chunks,          \* the list chunks being built
    chunk_pc,        \* "idle", "loop", "returned", "raised"
    \* ---- parse_scenario_query (retrieval/parser.py) ----
    query,           \* the raw query as given
    idx,             \* index of the next pattern of PATTERNS to try
    evaluated,       \* the indices of the patterns on which pat.search ran
    result,          \* the result dictionary
    parse_pc,        \* "idle", "loop", "after_loop", "returned"
    \* ---- _load_zoning_chunks, search_zoning_chunks (retrieval/zoning_search.py) ----
    corpus,          \* the file zoning_chunks.jsonl: whether it exists, its lines
    line_num,        \* loop variable line_num of _load_zoning_chunks
    chunks_map,      \* the id -> text map
    load_pc,         \* "idle", "scan", "returned"
    res,             \* the answer of index.query
    items,           \* the list items of search_zoning_chunks
    search_pc,       \* "idle", "init", "embed", "query", "load", "collect",
                     \* "returned", "raised"
    calls,           \* the calls search_zoning_chunks has made so far to
                     \* embed_texts, index.query and _load_zoning_chunks
    \* ---- _map_id_to_text (retrieval/zoning_search.py) ----
    match_id,        \* parameter chunk_id
    match_meta,      \* parameter meta
    lookup_map,      \* parameter chunks_map
    full_text,       \* the text returned
    resolve_pc,      \* "idle", "call", "returned"
    \* ---- get_zoning_districts_in_area, get_traffic_counts_in_area
    \*      (retrieval/geospatial.py) ----
    districts_file,  \* the file zoning_districts.geojson
    traffic_file,    \* the file traffic_counts.geojson
    area_bounds,     \* parameter area_bounds
    gdf,             \* the frame of load_zoning_districts, or None
    intersecting,    \* the rows of gdf that intersect the box
    districts_data,  \* the list districts_data
    geo_pc,          \* "idle", "load", "loaded", "rows", "returned", "raised"
    traffic_data,    \* the list returned by get_traffic_counts_in_area
    traffic_pc,      \* "idle", "call", "returned", "raised"
    \* ---- attach_metadata (utils/chunking.py) ----
    meta_chunks,     \* parameter chunks
    base_meta,       \* parameter base_meta
    records,         \* the list returned
    meta_pc,         \* "idle", "call", "returned"
    \* ---- build_scenario_packet (retrieval/scenario.py) ----
    env,             \* the query, the files and the answers of the services
    call_no,         \* the number of the call of build_scenario_packet
    parsed,          \* local parsed
    zoning_chunks,   \* local zoning_chunks
    zoning_districts, \* local zoning_districts
    traffic_counts,  \* local traffic_counts
    outcomes,        \* what each finished call returned or raised
    packet_pc,       \* "idle", "parse", "search", "districts", "traffic",
                     \* "assemble", "returned", "raised", "done"
    \* ---- index_jsonl, index_documents (ingest/embeddings.py) ----
    index_file,      \* the JSONL file handed to index_jsonl
    docs,            \* the list docs of index_jsonl
    upserts,         \* the vectors upserted: the id and the line of each record
    hit,             \* a vector id the index returned, resolved by the retriever
    index_pc,        \* "idle", "read", "index", "indexed", "resolved", "raised"
    \* ---- concurrent calls of build_scenario_packet ----
    shared_files,    \* the corpus and dataset files and the state of the services
    callers          \* the query, the locals and the position of each call

chunkVars == <<tiktoken, tokens, max_tokens, overlap_tokens, start, chunks, chunk_pc>>
parseVars == <<query, idx, evaluated, result, parse_pc>>
loadVars == <<corpus, line_num, chunks_map, load_pc>>
searchVars == <<res, items, search_pc, calls>>
resolveVars == <<match_id, match_meta, lookup_map, full_text, resolve_pc>>
geoVars ==
    <<districts_file, traffic_file, area_bounds, gdf, intersecting,
      districts_data, geo_pc, traffic_data, traffic_pc>>
metaVars == <<meta_chunks, base_meta, records, meta_pc>>
packetVars ==
    <<env, call_no, parsed, zoning_chunks, zoning_districts, traffic_counts,
      outcomes, packet_pc>>
indexVars == <<index_file, docs, upserts, hit, index_pc>>
concVars == <<shared_files, callers>>
vars ==
    <<chunkVars, parseVars, loadVars, searchVars, resolveVars, geoVars,
      metaVars, packetVars, indexVars, concVars>>

Min(a, b) == IF a <= b THEN a ELSE b
Max(a, b) == IF a >= b THEN a ELSE b

(***************************************************************************)
(* Bounds of the model.                                                    *)
(***************************************************************************)
MaxLen == 4        \* longest token sequence
TokenKinds == 2    \* distinct token values
MaxTok == 4        \* largest max_tokens / overlap_tokens
NegTok == 2        \* max_tokens and overlap_tokens go down to -NegTok

SeqsUpTo(S, n) == UNION {[1..k -> S] : k \in 0..n}

(***************************************************************************)
(* Python's s[i:j] on a list, negative indices included.                   *)
(***************************************************************************)
PyIndex(n, i) == IF i < 0 THEN Max(0, n + i) ELSE Min(i, n)

PySlice(s, i, j) ==
    LET lo == PyIndex(Len(s), i)
        hi == PyIndex(Len(s), j)
    IN IF lo < hi THEN SubSeq(s, lo + 1, hi) ELSE <<>>

(***************************************************************************)
(* chunk_text.  A chunk is modelled by the token window it was joined or   *)
(* decoded from.                                                           *)
(***************************************************************************)
StepTooWide == Max(1, max_tokens - overlap_tokens) + 1

\* the stride without its floor of one
StepNoFloor == max_tokens - overlap_tokens

\* step = max(1, max_tokens - overlap_tokens)
Step == Max(1, max_tokens - overlap_tokens)

\* words[start:end] with end = min(len(words), start + max_tokens), or
\* tokens[i : i + max_tokens]
Window ==
    IF tiktoken
    THEN PySlice(tokens, start, start + max_tokens)
    ELSE PySlice(tokens, start, Min(Len(tokens), start + max_tokens))

ChunkIdle ==
    /\ tiktoken = FALSE
    /\ tokens = <<>>
    /\ max_tokens = 0
    /\ overlap_tokens = 0
    /\ start = 0
    /\ chunks = <<>>
    /\ chunk_pc = "idle"

ChunkInit ==
    /\ tiktoken \in BOOLEAN
    /\ tokens \in SeqsUpTo(1..TokenKinds, MaxLen)
    /\ max_tokens \in (0 - NegTok)..MaxTok
    /\ overlap_tokens \in (0 - NegTok)..MaxTok
    /\ start = 0
    /\ chunks = <<>>
    /\ chunk_pc = "loop"

\* one iteration of the loop that appends a window
ChunkAppend ==
    /\ chunk_pc = "loop"
    /\ start < Len(tokens)
    /\ (tiktoken => Window # <<>>)
    /\ chunks' = Append(chunks, Window)
    /\ start' = start + Step
    /\ UNCHANGED <<tiktoken, tokens, max_tokens, overlap_tokens, chunk_pc>>
    /\ UNCHANGED <<parseVars, loadVars, searchVars, resolveVars, geoVars, metaVars, packetVars, indexVars, concVars>>

\* the loop ends: the condition fails, the range is exhausted, or the
\* tiktoken path breaks on an empty window
ChunkReturn ==
    /\ chunk_pc = "loop"
    /\ \/ start >= Len(tokens)
       \/ tiktoken /\ Window = <<>>
    /\ chunk_pc' = "returned"
    /\ UNCHANGED <<tiktoken, tokens, max_tokens, overlap_tokens, start, chunks>>
    /\ UNCHANGED <<parseVars, loadVars, searchVars, resolveVars, geoVars, metaVars, packetVars, indexVars, concVars>>

ChunkNext ==
    \/ ChunkAppend
    \/ ChunkReturn

(***************************************************************************)
(* Properties of chunk_text.                                               *)
(***************************************************************************)
Take(s, n) == SubSeq(s, 1, Min(Len(s), n))
Drop(s, n) == SubSeq(s, Min(Len(s), n) + 1, Len(s))

RECURSIVE ConcatHeads(_, _)
ConcatHeads(cs, n) ==
    IF cs = <<>> THEN <<>> ELSE Take(Head(cs), n) \o ConcatHeads(Tail(cs), n)

\* the first `stride` tokens of each window, then the rest of the last window
Reassemble(cs, stride) ==
    IF cs = <<>> THEN <<>>
    ELSE ConcatHeads(cs, stride) \o Drop(cs[Len(cs)], stride)

\* the tokens of the text from offset pos (0-based), at most n of them
TokensFrom(pos, n) == SubSeq(tokens, pos + 1, Min(Len(tokens), pos + n))

\* window k (1-based in chunks) starts at token (k-1)*stride and the windows
\* reassemble to the token sequence
WindowsCover ==
    LET stride == max_tokens - overlap_tokens
    IN /\ \A k \in 1..Len(chunks) :
            /\ (k - 1) * stride < Len(tokens)
            /\ chunks[k] = TokensFrom((k - 1) * stride, max_tokens)
       /\ Reassemble(chunks, stride) = tokens

\* C1 (as amended): for 0 <= overlapTokens < maxTokens the windows returned
\* by chunk_text cover every token in order: window k starts at token
\* k*stride and the first stride tokens of each window followed by the rest
\* of the last window are the token sequence of the text.
C1_WindowsCoverText ==
    (chunk_pc = "returned" /\ 0 <= overlap_tokens /\ overlap_tokens < max_tokens)
        => WindowsCover

\* C1 as stated: the same for every overlapTokens < maxTokens, a negative
\* overlapTokens included (max_tokens >= 1 keeps the case apart from the
\* handling of max_tokens <= 0).
C1_AsStated ==
    (chunk_pc = "returned" /\ max_tokens >= 1 /\ overlap_tokens < max_tokens)
        => WindowsCover

C1_Witness ==
    /\ chunk_pc = "returned"
    /\ 1 <= overlap_tokens
    /\ overlap_tokens < max_tokens
    /\ Len(chunks) >= 3
    /\ Len(chunks[Len(chunks)]) < max_tokens

\* window k of chunks spans the offsets WinStart(k) .. WinEnd(k)-1 of tokens
WinStart(k) == (k - 1) * Step
WinEnd(k) == WinStart(k) + Len(chunks[k])
Shared(k) == Max(0, Min(WinEnd(k), WinEnd(k + 1)) - WinStart(k + 1))

\* C2: for 0 <= overlapTokens < maxTokens two consecutive windows share
\* exactly overlapTokens tokens unless the pair ends in the final window;
\* every window but the final one holds maxTokens tokens and no window is
\* started once a window has reached the end of the token sequence.
C2_ConsecutiveShareOverlap ==
    (chunk_pc = "returned" /\ 0 <= overlap_tokens /\ overlap_tokens < max_tokens)
        => /\ \A k \in 1..(Len(chunks) - 2) : Shared(k) = overlap_tokens
           /\ \A k \in 1..(Len(chunks) - 1) : Len(chunks[k]) = max_tokens
           /\ \A k \in 1..(Len(chunks) - 1) : WinEnd(k) < Len(tokens)

\* C3: chunk_text with maxTokens <= 0 ends in an invalid-argument error for
\* every text; on an empty text with maxTokens >= 1 it returns the empty
\* sequence.
C3_InvalidMaxTokens ==
    /\ (chunk_pc \in {"returned", "raised"} /\ max_tokens <= 0)
            => chunk_pc = "raised"
    /\ (chunk_pc \in {"returned", "raised"} /\ max_tokens >= 1 /\ tokens = <<>>)
            => (chunk_pc = "returned" /\ chunks = <<>>)


\* C21: for max_tokens >= 1 and any overlap_tokens, chunk_text terminates:
\* start advances by max(1, max_tokens - overlap_tokens) with every window,
\* the stride is 1 when overlap_tokens >= max_tokens, and there are never
\* more windows than tokens.
C21_ChunkTextTerminates ==
    /\ [](max_tokens >= 1
            => /\ Step >= 1
               /\ start = Len(chunks) * Step
               /\ (overlap_tokens >= max_tokens => Step = 1)
               /\ Len(chunks) <= Len(tokens))
    /\ (chunk_pc = "loop" /\ max_tokens >= 1) ~> (chunk_pc = "returned")

C21_Witness ==
    /\ chunk_pc = "returned"
    /\ max_tokens >= 1
    /\ overlap_tokens > max_tokens
    /\ Len(tokens) >= 3
    /\ Len(chunks) = Len(tokens)


(***************************************************************************)
(* parse_scenario_query.                                                   *)
(*                                                                         *)
(* A string is modelled by its sequence of words; the words of a string    *)
(* are separated by one blank, and the word WS stands for one more         *)
(* whitespace character at its place.  None is Python's None.              *)
(***************************************************************************)
None == <<"<None>">>
WS == "<ws>"

MaxEdits == 1      \* edits applied to a base query

\* normalize(text) = " ".join(text.strip().split())
Normalize(text) == SelectSeq(text, LAMBDA w : w # WS)

\* str.lower() on one word
LowerWord(w) ==
    CASE w = "Pedestrianizing" -> "pedestrianizing"
      [] w = "Bike" -> "bike"
      [] w = "Broadway" -> "broadway"
      [] w = "New" -> "new"
      [] w = "York" -> "york"
      [] w = "Ave," -> "ave,"
      [] w = "St." -> "st."
      [] OTHER -> w

Lower(s) == [i \in 1..Len(s) |-> LowerWord(s[i])]

(***************************************************************************)
(* The regular expressions, word by word.  In a normalized query every \s+ *)
(* matches exactly one blank, so an element of a pattern matches whole     *)
(* words:                                                                  *)
(*   lit     one of the alternatives alts, in order, case-insensitively    *)
(*   word    one word of the class (pedestrianiz\w+, \d{4})                *)
(*   lazy    one or more words of a character class, shortest first (+?)   *)
(*   greedy  one or more words of a character class, longest first (+)     *)
(*   opt     an optional group (?:...)?, tried before its absence          *)
(*   end     $                                                             *)
(* cap names the group the element captures ("" for none).                 *)
(***************************************************************************)
Lit(alts, cap) == [kind |-> "lit", alts |-> alts, class |-> "", cap |-> cap, sub |-> <<>>]
OneWord(class, cap) == [kind |-> "word", alts |-> <<>>, class |-> class, cap |-> cap, sub |-> <<>>]
Lazy(class, cap) == [kind |-> "lazy", alts |-> <<>>, class |-> class, cap |-> cap, sub |-> <<>>]
Greedy(class, cap) == [kind |-> "greedy", alts |-> <<>>, class |-> class, cap |-> cap, sub |-> <<>>]
Opt(sub) == [kind |-> "opt", alts |-> <<>>, class |-> "", cap |-> "", sub |-> sub]
End == [kind |-> "end", alts |-> <<>>, class |-> "", cap |-> "", sub |-> <<>>]

\* (?:\s+in\s+(?P<city>[^.]+))?$
InCity == <<Opt(<<Lit(<<(<<"in">>)>>, ""), Greedy("noperiod", "city")>>), End>>

\* the same pattern with a greedy start group
Pattern1GreedyStart ==
    <<OneWord("pedestrianiz", "action"), Lazy("street", "street"),
      Lit(<<(<<"from">>)>>, ""), Greedy("nocomma", "start"),
      Lit(<<(<<"to">>)>>, ""), Lazy("nocomma", "end")>> \o InCity

\* PATTERNS[0], parser.py line 9
Pattern1 ==
    <<OneWord("pedestrianiz", "action"), Lazy("street", "street"),
      Lit(<<(<<"from">>)>>, ""), Lazy("nocomma", "start"),
      Lit(<<(<<"to">>)>>, ""), Lazy("nocomma", "end")>> \o InCity

\* PATTERNS[1], parser.py line 10
Pattern2 ==
    <<Lit(<<(<<"add">>)>>, ""),
      Lit(<<(<<"bike", "lane">>), (<<"bus", "lane">>)>>, "feature"),
      Lit(<<(<<"along">>), (<<"on">>)>>, ""), Lazy("street", "street")>> \o InCity

\* PATTERNS[2], parser.py line 13
Pattern3 ==
    <<Lit(<<(<<"close">>)>>, ""), Lazy("street", "street"),
      Lit(<<(<<"between">>), (<<"from">>)>>, ""), Lazy("nocomma", "start"),
      Lit(<<(<<"and">>), (<<"to">>)>>, ""), Lazy("nocomma", "end")>> \o InCity

\* PATTERNS[27], parser.py line 58
Pattern28 ==
    <<Lit(<<(<<"close">>)>>, ""), Lit(<<(<<"bridge">>), (<<"tunnel">>)>>, "feature"),
      Greedy("street", "name"), End>>

\* PATTERNS[48], parser.py line 92
Pattern49 ==
    <<Lit(<<(<<"what">>), (<<"which">>)>>, ""),
      Lit(<<(<<"roads">>), (<<"streets">>)>>, "feature"),
      Lit(<<(<<"were">>)>>, ""),
      Lit(<<(<<"closed">>), (<<"pedestrianized">>), (<<"modified">>)>>, "action"),
      Lit(<<(<<"in">>)>>, ""), OneWord("year", "year")>>

\* The patterns of PATTERNS that a query over the words of the model can
\* match, in the order of the list; every other pattern of the list needs a
\* literal word that the model's queries do not contain.
PATTERNS == <<Pattern1, Pattern2, Pattern3, Pattern28, Pattern49>>

\* the words of the model with a character outside a class
CommaWords == {"Ave,", "York,"}
PeriodWords == {"St."}
PedWords == {"pedestrianize", "Pedestrianizing"}
YearWords == {"2020"}

InClass(class, w) ==
    CASE class = "street" -> w \notin CommaWords        \* [A-Za-z0-9 .'-]
      [] class = "nocomma" -> w \notin CommaWords       \* [^,]
      [] class = "noperiod" -> w \notin PeriodWords     \* [^.]
      [] class = "pedestrianiz" -> w \in PedWords       \* pedestrianiz\w+
      [] class = "year" -> w \in YearWords              \* \d{4}

GroupNames == {"action", "feature", "street", "start", "end", "city", "name", "year"}
NoGroups == [g \in GroupNames |-> None]
NoMatch == [ok |-> FALSE, gd |-> NoGroups]

Bind(caps, cap, value) == IF cap = "" THEN caps ELSE [caps EXCEPT ![cap] = value]

\* the number of words from pos on that are all in the class
RECURSIVE RunLength(_, _, _)
RunLength(class, q, pos) ==
    IF pos <= Len(q) /\ InClass(class, q[pos])
    THEN 1 + RunLength(class, q, pos + 1)
    ELSE 0

\* The first match, in the order of a backtracking matcher, of the elements
\* elems against the words of q from position pos on.
RECURSIVE MatchFrom(_, _, _, _), TryAlts(_, _, _, _, _, _), TryRun(_, _, _, _, _, _, _)
MatchFrom(elems, q, pos, caps) ==
    IF elems = <<>> THEN [ok |-> TRUE, gd |-> caps]
    ELSE LET e == Head(elems)
             rest == Tail(elems)
         IN CASE e.kind = "lit" -> TryAlts(e, 1, rest, q, pos, caps)
              [] e.kind = "word" ->
                    IF pos <= Len(q) /\ InClass(e.class, q[pos])
                    THEN MatchFrom(rest, q, pos + 1, Bind(caps, e.cap, <<q[pos]>>))
                    ELSE NoMatch
              [] e.kind = "lazy" ->
                    TryRun(e, 1, 1, rest, q, pos, caps)
              [] e.kind = "greedy" ->
                    TryRun(e, RunLength(e.class, q, pos), 0 - 1, rest, q, pos, caps)
              [] e.kind = "opt" ->
                    LET with == MatchFrom(e.sub \o rest, q, pos, caps)
                    IN IF with.ok THEN with ELSE MatchFrom(rest, q, pos, caps)
              [] e.kind = "end" ->
                    IF pos = Len(q) + 1 THEN MatchFrom(rest, q, pos, caps) ELSE NoMatch

\* the alternatives of a literal from the k-th on
TryAlts(e, k, rest, q, pos, caps) ==
    IF k > Len(e.alts) THEN NoMatch
    ELSE LET alt == e.alts[k]
             last == pos + Len(alt) - 1
             m == IF last <= Len(q) /\ Lower(SubSeq(q, pos, last)) = alt
                  THEN MatchFrom(rest, q, last + 1, Bind(caps, e.cap, SubSeq(q, pos, last)))
                  ELSE NoMatch
         IN IF m.ok THEN m ELSE TryAlts(e, k + 1, rest, q, pos, caps)

\* a run of n words of the class, then n + d words, and so on
TryRun(e, n, d, rest, q, pos, caps) ==
    IF n < 1 \/ n > RunLength(e.class, q, pos) THEN NoMatch
    ELSE LET m == MatchFrom(rest, q, pos + n, Bind(caps, e.cap, SubSeq(q, pos, pos + n - 1)))
         IN IF m.ok THEN m ELSE TryRun(e, n + d, d, rest, q, pos, caps)

\* pat.search(q): the match at the leftmost position that has one
RECURSIVE SearchFrom(_, _, _)
SearchFrom(pat, q, pos) ==
    IF pos > Len(q) + 1 THEN NoMatch
    ELSE LET m == MatchFrom(pat, q, pos, NoGroups)
         IN IF m.ok THEN m ELSE SearchFrom(pat, q, pos + 1)

Search(pat, q) == SearchFrom(pat, q, 1)

\* gd = {k: (normalize(v) if v else v) for k, v in m.groupdict().items()}
GroupDict(m) == [g \in GroupNames |-> IF m.gd[g] = None THEN None ELSE Normalize(m.gd[g])]

DefaultCity == <<"New", "York,", "NY">>

InitialResultNormalized(text) ==
    [raw |-> Normalize(text), action |-> None, street |-> None, from_cross |-> None,
     to_cross |-> None, city |-> None, feature |-> None]

\* the result dictionary before the loop (lines 107-115)
InitialResult(text) ==
    [raw |-> text, action |-> None, street |-> None, from_cross |-> None,
     to_cross |-> None, city |-> None, feature |-> None]

ApplyMatchActionLast(r0, gd) ==
    LET r1 == IF gd["feature"] # None
              THEN [r0 EXCEPT !.action = Lower(gd["feature"]), !.feature = Lower(gd["feature"])]
              ELSE r0
        r2 == IF gd["action"] # None
              THEN [r1 EXCEPT !.action = Lower(gd["action"])]
              ELSE r1
    IN [r2 EXCEPT !.street = gd["street"],
                  !.from_cross = gd["start"],
                  !.to_cross = gd["end"],
                  !.city = IF gd["city"] # None THEN gd["city"] ELSE DefaultCity]

\* the body of `if m:` (lines 121-129)
ApplyMatch(r0, gd) ==
    LET r1 == IF gd["action"] # None
              THEN [r0 EXCEPT !.action = Lower(gd["action"])]
              ELSE r0
        r2 == IF gd["feature"] # None
              THEN [r1 EXCEPT !.action = Lower(gd["feature"]), !.feature = Lower(gd["feature"])]
              ELSE r1
    IN [r2 EXCEPT !.street = gd["street"],
                  !.from_cross = gd["start"],
                  !.to_cross = gd["end"],
                  !.city = IF gd["city"] # None THEN gd["city"] ELSE DefaultCity]

(***************************************************************************)
(* The queries of the model: a base query with at most MaxEdits words      *)
(* inserted or deleted.                                                    *)
(***************************************************************************)
BaseQueries ==
    { <<"pedestrianize", "Broadway", "from", "14th", "street", "to", "34th", "street",
        "in", "New", "York">>,
      <<"Pedestrianizing", "Broadway", "from", "14th", "to", "34th">>,
      <<"add", "Bike", "lane", "on", "Broadway", "in", "NYC">>,
      <<"close", "Broadway", "from", "14th", "to", "34th">>,
      <<"close", "bridge", "Broadway">>,
      <<"which", "roads", "were", "closed", "in", "2020">>,
      <<>> }

EditWords == {WS, "from", "to", "in", "Ave,", "St.", "bridge"}

InsertAt(s, k, w) == SubSeq(s, 1, k) \o <<w>> \o SubSeq(s, k + 1, Len(s))
DeleteAt(s, k) == SubSeq(s, 1, k - 1) \o SubSeq(s, k + 1, Len(s))

EditsOf(s) ==
    {InsertAt(s, k, w) : k \in 0..Len(s), w \in EditWords}
        \cup {DeleteAt(s, k) : k \in 1..Len(s)}

RECURSIVE Edited(_, _)
Edited(S, n) ==
    IF n = 0 THEN S ELSE Edited(S \cup UNION {EditsOf(s) : s \in S}, n - 1)

Queries == Edited(BaseQueries, MaxEdits)

ParseIdle ==
    /\ query = <<>>
    /\ idx = 0
    /\ evaluated = {}
    /\ result = InitialResult(<<>>)
    /\ parse_pc = "idle"

\* the call parse_scenario_query(query), up to the loop
ParseInit ==
    /\ query \in Queries
    /\ idx = 1
    /\ evaluated = {}
    /\ result = InitialResult(query)
    /\ parse_pc = "loop"

\* an iteration of the loop whose pattern does not match q
ParseNoMatch ==
    /\ parse_pc = "loop"
    /\ idx <= Len(PATTERNS)
    /\ ~Search(PATTERNS[idx], Normalize(query)).ok
    /\ evaluated' = evaluated \cup {idx}
    /\ idx' = idx + 1
    /\ UNCHANGED <<query, result, parse_pc>>
    /\ UNCHANGED <<chunkVars, loadVars, searchVars, resolveVars, geoVars, metaVars, packetVars, indexVars, concVars>>

\* the same iteration without the break
ParseMatchNoBreak ==
    /\ parse_pc = "loop"
    /\ idx <= Len(PATTERNS)
    /\ LET m == Search(PATTERNS[idx], Normalize(query))
       IN /\ m.ok
          /\ result' = ApplyMatch(result, GroupDict(m))
    /\ evaluated' = evaluated \cup {idx}
    /\ idx' = idx + 1
    /\ UNCHANGED <<query, parse_pc>>
    /\ UNCHANGED <<chunkVars, loadVars, searchVars, resolveVars, geoVars, metaVars, packetVars, indexVars, concVars>>

\* an iteration whose pattern matches: the fields are set and the loop breaks
ParseMatch ==
    /\ parse_pc = "loop"
    /\ idx <= Len(PATTERNS)
    /\ LET m == Search(PATTERNS[idx], Normalize(query))
       IN /\ m.ok
          /\ result' = ApplyMatch(result, GroupDict(m))
    /\ evaluated' = evaluated \cup {idx}
    /\ parse_pc' = "after_loop"
    /\ UNCHANGED <<query, idx>>
    /\ UNCHANGED <<chunkVars, loadVars, searchVars, resolveVars, geoVars, metaVars, packetVars, indexVars, concVars>>

\* the list is exhausted without a match
ParseExhausted ==
    /\ parse_pc = "loop"
    /\ idx > Len(PATTERNS)
    /\ parse_pc' = "after_loop"
    /\ UNCHANGED <<query, idx, evaluated, result>>
    /\ UNCHANGED <<chunkVars, loadVars, searchVars, resolveVars, geoVars, metaVars, packetVars, indexVars, concVars>>

\* the return without the default of the city
ParseReturnKeepingCity ==
    /\ parse_pc = "after_loop"
    /\ parse_pc' = "returned"
    /\ UNCHANGED <<query, idx, evaluated, result>>
    /\ UNCHANGED <<chunkVars, loadVars, searchVars, resolveVars, geoVars, metaVars, packetVars, indexVars, concVars>>

\* if not result["city"]: result["city"] = "New York, NY"; return result
ParseReturn ==
    /\ parse_pc = "after_loop"
    /\ result' = IF result.city = None THEN [result EXCEPT !.city = DefaultCity] ELSE result
    /\ parse_pc' = "returned"
    /\ UNCHANGED <<query, idx, evaluated>>
    /\ UNCHANGED <<chunkVars, loadVars, searchVars, resolveVars, geoVars, metaVars, packetVars, indexVars, concVars>>

ParseNext ==
    \/ ParseNoMatch
    \/ ParseMatch
    \/ ParseExhausted
    \/ ParseReturn

(***************************************************************************)
(* Properties of parse_scenario_query.                                     *)
(***************************************************************************)
\* the patterns that match the normalized query
Matching == {i \in 1..Len(PATTERNS) : Search(PATTERNS[i], Normalize(query)).ok}
FirstMatching == CHOOSE i \in Matching : \A j \in Matching : i <= j
WinningGroups == GroupDict(Search(PATTERNS[FirstMatching], Normalize(query)))

\* C4: the patterns are tried in list order and the first one that matches
\* the normalized query alone determines action, feature, street,
\* from_cross, to_cross and city; no later pattern is evaluated.
C4_FirstMatchWins ==
    (parse_pc = "returned" /\ Matching # {})
        => /\ evaluated = 1..FirstMatching
           /\ result = ApplyMatch(InitialResult(query), WinningGroups)

C4_Witness ==
    /\ parse_pc = "returned"
    /\ Cardinality(Matching) >= 2
    /\ result.street # None

\* C5: for a query that matches no pattern the intent has raw equal to the
\* query exactly as given, city "New York, NY" and every other field null.
C5_NoMatchDefaults ==
    (parse_pc = "returned" /\ Matching = {})
        => result = [raw |-> query, action |-> None, street |-> None,
                     from_cross |-> None, to_cross |-> None,
                     city |-> DefaultCity, feature |-> None]

C5_Witness ==
    /\ parse_pc = "returned"
    /\ Matching = {}
    /\ query # <<>>
    /\ Normalize(query) # query

\* C23: the city of every intent is non-null: the captured city when the
\* winning pattern captured one, "New York, NY" when a pattern matched
\* without capturing a city, and "New York, NY" when no pattern matched.
C23_CityNeverNull ==
    parse_pc = "returned"
        => /\ result.city # None
           /\ result.city # <<>>
           /\ Matching = {} => result.city = DefaultCity
           /\ Matching # {}
                => result.city = IF WinningGroups["city"] # None
                                 THEN WinningGroups["city"]
                                 ELSE DefaultCity

C23_Witness ==
    /\ parse_pc = "returned"
    /\ Matching # {}
    /\ WinningGroups["city"] = None
    /\ result.street # None
    /\ result.city = DefaultCity

\* C6: if the winning pattern captured a feature group, feature and action
\* both equal the lower-cased feature; otherwise, if it captured an action
\* group, action is its lower-cased value and feature is null; otherwise
\* action and feature are both null.
C6_FeatureOverridesAction ==
    (parse_pc = "returned" /\ Matching # {})
        => LET gd == WinningGroups
           IN /\ gd["feature"] # None
                    => /\ result.feature = Lower(gd["feature"])
                       /\ result.action = Lower(gd["feature"])
              /\ (gd["feature"] = None /\ gd["action"] # None)
                    => /\ result.action = Lower(gd["action"])
                       /\ result.feature = None
              /\ (gd["feature"] = None /\ gd["action"] = None)
                    => /\ result.action = None
                       /\ result.feature = None

C6_Witness ==
    /\ parse_pc = "returned"
    /\ Matching # {}
    /\ WinningGroups["feature"] # None
    /\ WinningGroups["action"] # None
    /\ result.action = <<"roads">>

\* The ways to read the normalized query q as
\* "<pedestrianiz-word> <street> from <a> to <b> in <city>": <street> is
\* q[2..j], <a> is q[j+2..k], <b> is q[k+2..m] and <city> is q[m+2..Len(q)],
\* with no comma in <a> and <b> and no period in <city>.
HasWord(s, w) == \E i \in 1..Len(s) : LowerWord(s[i]) = w
AllIn(s, class) == \A i \in 1..Len(s) : InClass(class, s[i])

Readings(q) ==
    {r \in (1..Len(q)) \X (1..Len(q)) \X (1..Len(q)) :
        /\ Len(q) >= 8
        /\ InClass("pedestrianiz", q[1])
        /\ 2 <= r[1] /\ r[1] + 2 <= r[2] /\ r[2] + 2 <= r[3] /\ r[3] + 2 <= Len(q)
        /\ q[r[1] + 1] = "from"
        /\ q[r[2] + 1] = "to"
        /\ q[r[3] + 1] = "in"
        /\ AllIn(SubSeq(q, r[1] + 2, r[2]), "nocomma")
        /\ AllIn(SubSeq(q, r[2] + 2, r[3]), "nocomma")
        /\ AllIn(SubSeq(q, r[3] + 2, Len(q)), "noperiod")}

ReadAs(q, r) ==
    /\ result.action = Lower(<<q[1]>>)
    /\ result.street = SubSeq(q, 2, r[1])
    /\ result.from_cross = SubSeq(q, r[1] + 2, r[2])
    /\ result.to_cross = SubSeq(q, r[2] + 2, r[3])
    /\ result.city = SubSeq(q, r[3] + 2, Len(q))

\* the reading whose <street> is made of letters, digits, blanks, . ' - and
\* has no word "from", whose <a> has no word "to" and whose <b> has no word
\* "in"
Unambiguous(q, r) ==
    /\ AllIn(SubSeq(q, 2, r[1]), "street")
    /\ ~HasWord(SubSeq(q, 2, r[1]), "from")
    /\ ~HasWord(SubSeq(q, r[1] + 2, r[2]), "to")
    /\ ~HasWord(SubSeq(q, r[2] + 2, r[3]), "in")

\* C7 (as amended): for a query of the shape
\* "<pedestrianiz-word> <street> from <a> to <b> in <city>" (no comma in
\* <a>, <b>, no period in <city>) whose <street> has only the characters of
\* a street name and no word "from", whose <a> has no word "to" and whose
\* <b> has no word "in", the intent has action = the lower-cased
\* pedestrianiz-word, street = <street>, from_cross = <a>, to_cross = <b>
\* and city = <city>.
C7_PedestrianizeFields ==
    parse_pc = "returned"
        => \A r \in Readings(Normalize(query)) :
                Unambiguous(Normalize(query), r) => ReadAs(Normalize(query), r)

\* C7 as stated: the same for every query of the shape.
C7_AsStated ==
    parse_pc = "returned"
        => \A r \in Readings(Normalize(query)) : ReadAs(Normalize(query), r)

\* the example of the claim
C7_Witness ==
    /\ parse_pc = "returned"
    /\ query = <<"pedestrianize", "Broadway", "from", "14th", "street", "to",
                 "34th", "street", "in", "New", "York">>
    /\ result.action = <<"pedestrianize">>
    /\ result.street = <<"Broadway">>
    /\ result.from_cross = <<"14th", "street">>
    /\ result.to_cross = <<"34th", "street">>
    /\ result.city = <<"New", "York">>

(***************************************************************************)
(* zoning_search.py.  An id is the sequence of its pieces: a piece is one  *)
(* digit or a run of other characters.  A text is a sequence too; the      *)
(* empty sequence is the empty string.                                     *)
(***************************************************************************)
MaxLines == 2      \* lines of the corpus file
MaxMatches == 2    \* matches in an answer of the index

DigitChars == <<"0", "1", "2", "3", "4", "5", "6", "7", "8", "9">>
IsDigit(c) == \E i \in 1..10 : DigitChars[i] = c

\* str(n) for a natural number n
RECURSIVE Digits(_)
Digits(n) == IF n < 10 THEN <<DigitChars[n + 1]>>
             ELSE Digits(n \div 10) \o <<DigitChars[(n % 10) + 1]>>

\* a value that Python takes as true: not None and not empty
Truthy(v) == v # None /\ v # <<>>

\* fallback_id = f"zoning-{line_num}"
FallbackId(n) == <<"zoning-">> \o Digits(n)

Sentinel == <<"Text content not available">>

EmptyMap == [k \in {} |-> <<>>]
Put(map, k, v) == [x \in (DOMAIN map) \cup {k} |-> IF x = k THEN v ELSE map[x]]

\* the lines of a corpus file
Blank == [kind |-> "blank", id |-> None, text |-> None]
Malformed == [kind |-> "malformed", id |-> None, text |-> None]
NotAnObject == [kind |-> "not_object", id |-> None, text |-> None]
Record(id, text) == [kind |-> "record", id |-> id, text |-> text]

FileIds == {None, <<>>, FallbackId(1), <<"vec_", "1">>}
FileTexts == {None, <<"A">>, <<"B">>}
Lines == {Blank, Malformed, NotAnObject} \cup {Record(id, text) : id \in FileIds, text \in FileTexts}

\* one iteration of the loop over the lines that maps the explicit id only
LoadLineFallbackUnlessExplicit(map, n, line) ==
    IF line.kind # "record" \/ ~Truthy(line.text) THEN map
    ELSE IF Truthy(line.id) THEN Put(map, line.id, line.text)
         ELSE Put(map, FallbackId(n), line.text)

\* one iteration of the loop over the lines (lines 29-48): a blank line, a
\* line json.loads rejects and a record with no text are skipped
LoadLine(map, n, line) ==
    IF line.kind # "record" \/ ~Truthy(line.text) THEN map
    ELSE LET m1 == IF Truthy(line.id) THEN Put(map, line.id, line.text) ELSE map
         IN Put(m1, FallbackId(n), line.text)

\* the map after the lines from line number n on; a line that is JSON but
\* not an object raises at chunk_data.get and the handler of lines 53-55
\* returns the empty map
RECURSIVE LoadFrom(_, _, _)
LoadFrom(map, n, lines) ==
    IF n >= Len(lines) THEN map
    ELSE IF lines[n + 1].kind = "not_object" THEN EmptyMap
    ELSE LoadFrom(LoadLine(map, n, lines[n + 1]), n + 1, lines)

\* _load_zoning_chunks()
LoadZoningChunks(file) == IF file.exists THEN LoadFrom(EmptyMap, 0, file.lines) ELSE EmptyMap

LoadIdle ==
    /\ corpus = [exists |-> FALSE, lines |-> <<>>]
    /\ line_num = 0
    /\ chunks_map = EmptyMap
    /\ load_pc = "idle"

LoadInit ==
    /\ corpus \in [exists : BOOLEAN, lines : SeqsUpTo(Lines, MaxLines)]
    /\ (~corpus.exists => corpus.lines = <<>>)
    /\ line_num = 0
    /\ chunks_map = EmptyMap
    /\ load_pc = "scan"

\* if not chunks_path.exists(): return {}
LoadMissing ==
    /\ load_pc = "scan"
    /\ ~corpus.exists
    /\ load_pc' = "returned"
    /\ UNCHANGED <<corpus, line_num, chunks_map>>
    /\ UNCHANGED <<chunkVars, parseVars, searchVars, resolveVars, geoVars, metaVars, packetVars, indexVars, concVars>>

\* the scan with a json.loads failure that ends the load with the empty map
LoadScanLineRejecting ==
    /\ load_pc = "scan"
    /\ corpus.exists
    /\ line_num < Len(corpus.lines)
    /\ corpus.lines[line_num + 1].kind # "not_object"
    /\ IF corpus.lines[line_num + 1].kind = "malformed"
       THEN /\ chunks_map' = EmptyMap
            /\ load_pc' = "returned"
            /\ UNCHANGED line_num
       ELSE /\ chunks_map' = LoadLine(chunks_map, line_num, corpus.lines[line_num + 1])
            /\ line_num' = line_num + 1
            /\ UNCHANGED load_pc
    /\ UNCHANGED corpus
    /\ UNCHANGED <<chunkVars, parseVars, searchVars, resolveVars, geoVars, metaVars, packetVars, indexVars, concVars>>

\* for i, line in enumerate(f): one line that is blank, rejected by
\* json.loads, or a record
LoadScanLine ==
    /\ load_pc = "scan"
    /\ corpus.exists
    /\ line_num < Len(corpus.lines)
    /\ corpus.lines[line_num + 1].kind # "not_object"
    /\ chunks_map' = LoadLine(chunks_map, line_num, corpus.lines[line_num + 1])
    /\ line_num' = line_num + 1
    /\ UNCHANGED <<corpus, load_pc>>
    /\ UNCHANGED <<chunkVars, parseVars, searchVars, resolveVars, geoVars, metaVars, packetVars, indexVars, concVars>>

\* chunk_data.get raises on a line that is JSON but not an object:
\* except Exception: return {}
LoadAbort ==
    /\ load_pc = "scan"
    /\ corpus.exists
    /\ line_num < Len(corpus.lines)
    /\ corpus.lines[line_num + 1].kind = "not_object"
    /\ chunks_map' = EmptyMap
    /\ load_pc' = "returned"
    /\ UNCHANGED <<corpus, line_num>>
    /\ UNCHANGED <<chunkVars, parseVars, searchVars, resolveVars, geoVars, metaVars, packetVars, indexVars, concVars>>

LoadReturn ==
    /\ load_pc = "scan"
    /\ corpus.exists
    /\ line_num >= Len(corpus.lines)
    /\ load_pc' = "returned"
    /\ UNCHANGED <<corpus, line_num, chunks_map>>
    /\ UNCHANGED <<chunkVars, parseVars, searchVars, resolveVars, geoVars, metaVars, packetVars, indexVars, concVars>>

LoadNext ==
    \/ LoadMissing
    \/ LoadScanLine
    \/ LoadAbort
    \/ LoadReturn

(***************************************************************************)
(* Properties of _load_zoning_chunks.                                      *)
(***************************************************************************)
\* the line numbers (from 0) of the records that have text
TextLines ==
    {n \in 0..(Len(corpus.lines) - 1) :
        corpus.lines[n + 1].kind = "record" /\ Truthy(corpus.lines[n + 1].text)}

Lookup(id) == IF id \in DOMAIN chunks_map THEN chunks_map[id] ELSE None

\* the explicit (non-empty) id and the positional id of every record with
\* text resolve to the text of that record
BothIdsResolve ==
    \A n \in TextLines :
        LET line == corpus.lines[n + 1]
        IN /\ Lookup(FallbackId(n)) = line.text
           /\ Truthy(line.id) => Lookup(line.id) = line.text

\* no explicit id of a record with text is the explicit or the positional
\* id of another record with text
UniqueIds ==
    \A n \in TextLines : \A m \in TextLines \ {n} :
        LET id == corpus.lines[n + 1].id
        IN Truthy(id) => (id # corpus.lines[m + 1].id /\ id # FallbackId(m))

\* every line of the file that is JSON is an object
LinesAreObjects ==
    \A k \in 1..Len(corpus.lines) : corpus.lines[k].kind # "not_object"

ScannedLine == corpus.lines[line_num + 1]

\* the iteration over a line json.loads rejects changes nothing but the line
\* number, and the iteration over a record with text registers that text
\* under "zoning-<line_num>", line_num counting every line read so far
ScanStep ==
    (load_pc = "scan" /\ corpus.exists /\ line_num < Len(corpus.lines))
        => /\ ScannedLine.kind = "malformed"
                => /\ load_pc' = "scan"
                   /\ line_num' = line_num + 1
                   /\ chunks_map' = chunks_map
           /\ (ScannedLine.kind = "record" /\ Truthy(ScannedLine.text))
                => /\ load_pc' = "scan"
                   /\ line_num' = line_num + 1
                   /\ FallbackId(line_num) \in DOMAIN chunks_map'
                   /\ chunks_map'[FallbackId(line_num)] = ScannedLine.text

\* the records with text of a scanned file are in the map under their
\* positional ids, with their own text unless a later record names that id
\* as its explicit id
PositionalIdsKept ==
    \A n \in TextLines :
        /\ FallbackId(n) \in DOMAIN chunks_map
        /\ (\A m \in TextLines : m > n => corpus.lines[m + 1].id # FallbackId(n))
                => chunks_map[FallbackId(n)] = corpus.lines[n + 1].text

\* C22: a line of the corpus file that json.loads rejects never aborts
\* _load_zoning_chunks: the line is skipped, the scan goes on, and every
\* record with text is registered under the positional id of its own line
\* ordinal, the skipped lines counted.
C22_MalformedLineSkipped ==
    /\ [][ScanStep]_vars
    /\ []((load_pc = "returned" /\ corpus.exists /\ LinesAreObjects) => PositionalIdsKept)

C22_Witness ==
    /\ load_pc = "returned"
    /\ Len(corpus.lines) = 2
    /\ corpus.lines[1].kind = "malformed"
    /\ corpus.lines[2].kind = "record"
    /\ ~Truthy(corpus.lines[2].id)
    /\ FallbackId(0) \notin DOMAIN chunks_map
    /\ Lookup(FallbackId(1)) = <<"A">>

(***************************************************************************)
(* search_zoning_chunks.                                                   *)
(***************************************************************************)
\* re.search(r"(\d+)", id): the first run of digits of the id
RECURSIVE DigitRun(_)
DigitRun(id) ==
    IF id = <<>> \/ ~IsDigit(Head(id)) THEN <<>> ELSE <<Head(id)>> \o DigitRun(Tail(id))

RECURSIVE FirstDigits(_)
FirstDigits(id) ==
    IF id = <<>> THEN <<>>
    ELSE IF IsDigit(Head(id)) THEN DigitRun(id) ELSE FirstDigits(Tail(id))

\* the metadata of a match: None (present = FALSE) or a mapping with or
\* without the keys text and content
Meta(text, content) == [present |-> TRUE, text |-> text, content |-> content]
NoMeta == [present |-> FALSE, text |-> None, content |-> None]

\* (meta or {}).get("text") or (meta or {}).get("content")
MetaText(meta) == IF Truthy(meta.text) THEN meta.text ELSE meta.content

MapIdToTextMetaFirst(chunk_id, meta, map) ==
    IF Truthy(MetaText(meta)) THEN MetaText(meta)
    ELSE IF Truthy(chunk_id) /\ chunk_id \in DOMAIN map THEN map[chunk_id]
    ELSE IF /\ Truthy(chunk_id)
            /\ FirstDigits(chunk_id) # <<>>
            /\ (<<"zoning-">> \o FirstDigits(chunk_id)) \in DOMAIN map
         THEN map[<<"zoning-">> \o FirstDigits(chunk_id)]
    ELSE Sentinel

\* the strategies without the probe of the numeric fallback id
MapIdToTextNoNumeric(chunk_id, meta, map) ==
    IF Truthy(chunk_id) /\ chunk_id \in DOMAIN map THEN map[chunk_id]
    ELSE IF Truthy(MetaText(meta)) THEN MetaText(meta)
    ELSE Sentinel

\* _map_id_to_text (lines 60-91)
MapIdToText(chunk_id, meta, map) ==
    IF ~Truthy(chunk_id)
    THEN IF Truthy(MetaText(meta)) THEN MetaText(meta) ELSE Sentinel
    ELSE IF chunk_id \in DOMAIN map THEN map[chunk_id]
    ELSE IF /\ FirstDigits(chunk_id) # <<>>
            /\ (<<"zoning-">> \o FirstDigits(chunk_id)) \in DOMAIN map
         THEN map[<<"zoning-">> \o FirstDigits(chunk_id)]
    ELSE IF Truthy(MetaText(meta)) THEN MetaText(meta)
    ELSE Sentinel

Item(m, map) ==
    [id |-> m.id, score |-> m.score, metadata |-> m.metadata,
     text |-> MapIdToText(m.id, m.metadata, map)]

RECURSIVE CollectResolved(_, _)
CollectResolved(ms, map) ==
    IF ms = <<>> THEN <<>>
    ELSE IF Item(Head(ms), map).text = Sentinel THEN CollectResolved(Tail(ms), map)
    ELSE <<Item(Head(ms), map)>> \o CollectResolved(Tail(ms), map)

\* the loop over the matches (lines 120-138)
Collect(ms, map) == [k \in 1..Len(ms) |-> Item(ms[k], map)]

\* the answers of the index: a mapping with the key matches, an object with
\* the attribute matches and a get method, or an object with the attribute
\* alone
MatchIds == {None, FallbackId(1), <<"vec_", "1">>, <<"doc">>}
MatchMetas == {NoMeta, Meta(<<"M">>, None), Meta(None, <<"N">>), Meta(<<"M">>, <<"N">>)}
Scores == {5, 9}
Matches == [id : MatchIds, score : Scores, metadata : MatchMetas]
Shapes == {"mapping", "object", "attr_only"}
Answers == [shape : Shapes, matches : SeqsUpTo(Matches, MaxMatches)]

\* the corpus files of the searches
SearchCorpora ==
    { [exists |-> FALSE, lines |-> <<>>],
      [exists |-> TRUE, lines |-> <<>>],
      [exists |-> TRUE, lines |-> <<Malformed, Record(None, <<"A">>)>>],
      [exists |-> TRUE, lines |-> <<Record(<<"vec_", "1">>, <<"A">>), Record(None, <<"B">>)>>],
      [exists |-> TRUE, lines |-> <<Record(<<"doc">>, <<"A">>), Blank>>],
      [exists |-> TRUE, lines |-> <<Record(<<"doc">>, <<"A">>), NotAnObject>>],
      [exists |-> TRUE, lines |-> <<Record(FallbackId(1), <<"A">>), Record(None, None)>>] }

\* a call search_zoning_chunks made, and whether it returned or raised
Call(op, ok) == [op |-> op, ok |-> ok]

SearchIdle ==
    /\ res = [shape |-> "mapping", matches |-> <<>>]
    /\ items = <<>>
    /\ search_pc = "idle"
    /\ calls = <<>>

SearchInit ==
    /\ corpus \in SearchCorpora
    /\ line_num = 0
    /\ chunks_map = EmptyMap
    /\ load_pc = "idle"
    /\ res = [shape |-> "mapping", matches |-> <<>>]
    /\ items = <<>>
    /\ search_pc = "init"
    /\ calls = <<>>

\* pc = _init_pinecone(); index = pc.Index(...): succeeds or raises
SearchInitPinecone ==
    /\ search_pc = "init"
    /\ \E ok \in BOOLEAN : search_pc' = IF ok THEN "embed" ELSE "raised"
    /\ UNCHANGED <<res, items, calls>>
    /\ UNCHANGED <<chunkVars, parseVars, loadVars, resolveVars, geoVars, metaVars, packetVars, indexVars, concVars>>

\* emb = embed_texts([query], ...)[0]: succeeds or raises
SearchEmbed ==
    /\ search_pc = "embed"
    /\ \E ok \in BOOLEAN :
          /\ search_pc' = IF ok THEN "query" ELSE "raised"
          /\ calls' = Append(calls, Call("embed", ok))
    /\ UNCHANGED <<res, items>>
    /\ UNCHANGED <<chunkVars, parseVars, loadVars, resolveVars, geoVars, metaVars, packetVars, indexVars, concVars>>

\* the query whose exception is logged and not raised again: the corpus is
\* scanned all the same
SearchQueryGoingOn ==
    /\ search_pc = "query"
    /\ \/ /\ \E r \in Answers : res' = r
          /\ search_pc' = "load"
          /\ calls' = Append(calls, Call("query", TRUE))
       \/ /\ res' = res
          /\ search_pc' = "load"
          /\ calls' = Append(calls, Call("query", FALSE))
    /\ UNCHANGED items
    /\ UNCHANGED <<chunkVars, parseVars, loadVars, resolveVars, geoVars, metaVars, packetVars, indexVars, concVars>>

\* res = index.query(...): an answer, or an exception that is raised again
SearchQuery ==
    /\ search_pc = "query"
    /\ \/ /\ \E r \in Answers : res' = r
          /\ search_pc' = "load"
          /\ calls' = Append(calls, Call("query", TRUE))
       \/ /\ res' = res
          /\ search_pc' = "raised"
          /\ calls' = Append(calls, Call("query", FALSE))
    /\ UNCHANGED items
    /\ UNCHANGED <<chunkVars, parseVars, loadVars, resolveVars, geoVars, metaVars, packetVars, indexVars, concVars>>

\* chunks_map = _load_zoning_chunks()
SearchLoad ==
    /\ search_pc = "load"
    /\ chunks_map' = LoadZoningChunks(corpus)
    /\ search_pc' = "collect"
    /\ calls' = Append(calls, Call("scan", TRUE))
    /\ UNCHANGED <<res, items>>
    /\ UNCHANGED <<corpus, line_num, load_pc>>
    /\ UNCHANGED <<chunkVars, parseVars, resolveVars, geoVars, metaVars, packetVars, indexVars, concVars>>

\* matches = getattr(res, "matches", []) or res.get("matches", []): an
\* object without get and with no matches raises AttributeError
SearchCollect ==
    /\ search_pc = "collect"
    /\ IF res.shape = "attr_only" /\ res.matches = <<>>
       THEN /\ search_pc' = "raised"
            /\ items' = items
       ELSE /\ items' = Collect(res.matches, chunks_map)
            /\ search_pc' = "returned"
    /\ UNCHANGED <<res, calls>>
    /\ UNCHANGED <<chunkVars, parseVars, loadVars, resolveVars, geoVars, metaVars, packetVars, indexVars, concVars>>

SearchNext ==
    \/ SearchInitPinecone
    \/ SearchEmbed
    \/ SearchQuery
    \/ SearchLoad
    \/ SearchCollect

(***************************************************************************)
(* Properties of search_zoning_chunks.                                     *)
(***************************************************************************)
NumericId(id) == <<"zoning-">> \o FirstDigits(id)
MapHit(m) == Truthy(m.id) /\ m.id \in DOMAIN chunks_map
NumericHit(m) ==
    /\ Truthy(m.id)
    /\ FirstDigits(m.id) # <<>>
    /\ NumericId(m.id) \in DOMAIN chunks_map

\* C8: the text of a match is that of the first strategy that succeeds:
\* (1) the id in the id->text map, (2) the fallback id built from the
\* digits of the id, (3) the metadata's text, else its content, (4) the
\* sentinel; a map hit wins over inline metadata text.
C8_StrategyOrder ==
    search_pc = "returned"
        => \A k \in 1..Len(items) :
              LET m == res.matches[k]
                  text == items[k].text
              IN /\ MapHit(m) => text = chunks_map[m.id]
                 /\ (~MapHit(m) /\ NumericHit(m)) => text = chunks_map[NumericId(m.id)]
                 /\ (~MapHit(m) /\ ~NumericHit(m) /\ Truthy(m.metadata.text))
                        => text = m.metadata.text
                 /\ (~MapHit(m) /\ ~NumericHit(m) /\ ~Truthy(m.metadata.text)
                        /\ Truthy(m.metadata.content))
                        => text = m.metadata.content
                 /\ (~MapHit(m) /\ ~NumericHit(m) /\ ~Truthy(m.metadata.text)
                        /\ ~Truthy(m.metadata.content))
                        => text = Sentinel

C8_Witness ==
    /\ search_pc = "returned"
    /\ \E k \in 1..Len(items) :
          /\ MapHit(res.matches[k])
          /\ Truthy(res.matches[k].metadata.text)
          /\ items[k].text = chunks_map[res.matches[k].id]
    /\ \E k \in 1..Len(items) :
          /\ ~MapHit(res.matches[k])
          /\ NumericHit(res.matches[k])
          /\ Truthy(res.matches[k].metadata.content)

\* C9: search_zoning_chunks returns one item per match of the index, in the
\* order of the index, each with the id, score and metadata of its match; a
\* match whose text cannot be resolved is returned with the sentinel text.
C9_OneItemPerMatch ==
    search_pc = "returned"
        => /\ Len(items) = Len(res.matches)
           /\ \A k \in 1..Len(items) :
                 LET m == res.matches[k]
                 IN /\ items[k].id = m.id
                    /\ items[k].score = m.score
                    /\ items[k].metadata = m.metadata
                    /\ (~MapHit(m) /\ ~NumericHit(m) /\ ~Truthy(MetaText(m.metadata)))
                          => items[k].text = Sentinel

C9_Witness ==
    /\ search_pc = "returned"
    /\ Len(items) = 2
    /\ items[1].score < items[2].score
    /\ items[1].text = Sentinel
    /\ items[2].text # Sentinel

\* C15: search_zoning_chunks called while the corpus file is missing fails
\* with an error instead of returning results.
C15_MissingCorpusFails ==
    ~corpus.exists => search_pc # "returned"

\* C17: when the index answers with zero matches, search_zoning_chunks
\* returns an empty list without raising, whether the answer is a mapping or
\* an object with the attribute matches only; a non-empty answer gives the
\* same items whatever its shape.
C17_ZeroMatchesEmptyList ==
    /\ (search_pc = "returned" /\ res.matches = <<>>) => items = <<>>
    /\ (res.shape = "attr_only" /\ res.matches = <<>>) => search_pc # "raised"
    /\ (search_pc = "returned" /\ res.matches # <<>>)
          => items = [k \in 1..Len(res.matches) |-> Item(res.matches[k], chunks_map)]

\* how many times the search has called op
Count(op) == Cardinality({k \in 1..Len(calls) : calls[k].op = op})

\* the calls of a search that ran to the collection of the items
CallsInOrder == <<Call("embed", TRUE), Call("query", TRUE), Call("scan", TRUE)>>

\* C27: within one call of search_zoning_chunks the embedding is invoked
\* once, the index is queried at most once and only after the embedding
\* succeeded, and the corpus file is scanned exactly once and only after
\* the query succeeded; a failed embedding or query is not retried and
\* causes no scan of the corpus.
C27_OneCallOfEachInOrder ==
    /\ Count("embed") <= 1 /\ Count("query") <= 1 /\ Count("scan") <= 1
    /\ \A k \in 1..Len(calls) :
          /\ calls[k].op = "query"
                => \E j \in 1..(k - 1) : calls[j] = Call("embed", TRUE)
          /\ calls[k].op = "scan"
                => \E j \in 1..(k - 1) : calls[j] = Call("query", TRUE)
          /\ ~calls[k].ok => (k = Len(calls) /\ search_pc = "raised")
    /\ search_pc \in {"query", "load", "collect", "returned"} => Count("embed") = 1
    /\ search_pc \in {"collect", "returned"} => calls = CallsInOrder
    /\ chunks_map # EmptyMap => Count("scan") = 1

C27_Witness ==
    /\ search_pc = "returned"
    /\ calls = CallsInOrder
    /\ Len(items) = 2
    /\ chunks_map # EmptyMap

(***************************************************************************)
(* _map_id_to_text on its own: the id and the metadata of a match and the  *)
(* map of a corpus file are the inputs.                                    *)
(***************************************************************************)
ResolveIds ==
    { None, <<>>, FallbackId(0), FallbackId(1), <<"vec_", "1">>, <<"vec_", "0">>,
      <<"v", "1", "_", "0">>, <<"vec_", "0", "1">>, <<"doc">> }

\* the maps _load_zoning_chunks builds
ResolveMaps ==
    { LoadZoningChunks([exists |-> TRUE, lines |-> ls]) : ls \in SeqsUpTo(Lines, MaxLines) }

ResolveIdle ==
    /\ match_id = None
    /\ match_meta = NoMeta
    /\ lookup_map = EmptyMap
    /\ full_text = None
    /\ resolve_pc = "idle"

ResolveInit ==
    /\ match_id \in ResolveIds
    /\ match_meta \in MatchMetas
    /\ lookup_map \in ResolveMaps
    /\ full_text = None
    /\ resolve_pc = "call"

\* full_text = _map_id_to_text(chunk_id, meta, chunks_map)
ResolveCall ==
    /\ resolve_pc = "call"
    /\ full_text' = MapIdToText(match_id, match_meta, lookup_map)
    /\ resolve_pc' = "returned"
    /\ UNCHANGED <<match_id, match_meta, lookup_map>>
    /\ UNCHANGED <<chunkVars, parseVars, loadVars, searchVars, geoVars, metaVars, packetVars, indexVars, concVars>>

ResolveNext ==
    \/ ResolveCall

(***************************************************************************)
(* Properties of the numeric fallback of _map_id_to_text.                  *)
(***************************************************************************)
\* the maximal runs of digits of an id, as (first, last) positions
DigitRuns(id) ==
    { r \in (1..Len(id)) \X (1..Len(id)) :
        /\ r[1] <= r[2]
        /\ \A k \in r[1]..r[2] : IsDigit(id[k])
        /\ (r[1] > 1 => ~IsDigit(id[r[1] - 1]))
        /\ (r[2] < Len(id) => ~IsDigit(id[r[2] + 1])) }

DigitValue(c) == (CHOOSE i \in 1..10 : DigitChars[i] = c) - 1

\* the number a run of digits writes
RECURSIVE RunValue(_, _, _)
RunValue(id, first, last) ==
    IF last < first THEN 0
    ELSE 10 * RunValue(id, first, last - 1) + DigitValue(id[last])

\* the numerals an id contains
Numerals(id) ==
    IF id = None THEN {} ELSE { RunValue(id, r[1], r[2]) : r \in DigitRuns(id) }

NoDirectEntry == Truthy(match_id) /\ match_id \notin DOMAIN lookup_map

\* C11 (as amended): a match whose id has no direct entry in the id->text
\* map and whose first run of digits is D (written as in the id, leading
\* zeros kept) resolves to the text the map holds for "zoning-D", whenever
\* the map has that key.
C11_FirstNumeralResolves ==
    (/\ resolve_pc = "returned"
     /\ NoDirectEntry
     /\ FirstDigits(match_id) # <<>>
     /\ (<<"zoning-">> \o FirstDigits(match_id)) \in DOMAIN lookup_map)
        => full_text = lookup_map[<<"zoning-">> \o FirstDigits(match_id)]

\* C11 as stated: a match whose id has no direct entry and contains the
\* numeral N resolves to the text of the record addressed as "zoning-N", for
\* every numeral N of the id.
C11_AsStated ==
    (resolve_pc = "returned" /\ NoDirectEntry)
        => \A n \in Numerals(match_id) :
              FallbackId(n) \in DOMAIN lookup_map
                  => full_text = lookup_map[FallbackId(n)]

C11_Witness ==
    /\ resolve_pc = "returned"
    /\ match_id = <<"vec_", "1">>
    /\ NoDirectEntry
    /\ FallbackId(1) \in DOMAIN lookup_map
    /\ Truthy(match_meta.text)
    /\ match_meta.text # lookup_map[FallbackId(1)]
    /\ full_text = lookup_map[FallbackId(1)]

(***************************************************************************)
(* The spatial filter (retrieval/geospatial.py).  Coordinates are integers *)
(* (x = longitude, y = latitude); the geometry of a district is a closed   *)
(* rectangle or is missing, that of a traffic location is a point.         *)
(***************************************************************************)
MaxRows == 2       \* rows of the districts dataset

Rect(x1, y1, x2, y2) == [kind |-> "polygon", x1 |-> x1, y1 |-> y1, x2 |-> x2, y2 |-> y2]
Pt(x, y) == [kind |-> "point", x1 |-> x, y1 |-> y, x2 |-> x, y2 |-> y]
NoGeometry == [kind |-> "none", x1 |-> 0, y1 |-> 0, x2 |-> 0, y2 |-> 0]

BoundKeys == {"min_lat", "max_lat", "min_lon", "max_lon"}

\* area_bounds as a dictionary: a function on the keys it has
AreaOf(min_lat, max_lat, min_lon, max_lon) ==
    [k \in BoundKeys |->
        CASE k = "min_lat" -> min_lat
          [] k = "max_lat" -> max_lat
          [] k = "min_lon" -> min_lon
          [] k = "max_lon" -> max_lon]

Without(area, key) == [k \in (DOMAIN area) \ {key} |-> area[k]]

\* create_manhattan_broadway_bounds(): the one area the assembler uses
ManhattanBroadwayBounds == AreaOf(1, 3, 2, 5)

Areas ==
    {ManhattanBroadwayBounds, AreaOf(0, 1, 0, 1)}
        \cup {Without(ManhattanBroadwayBounds, k) : k \in BoundKeys}

\* the polygon of lines 114-120: corners (lon, lat)
DistrictsBox(area) ==
    Rect(area["min_lon"], area["min_lat"], area["max_lon"], area["max_lat"])

\* shapely's intersects: the two closed sets have a point in common
IntersectsCovered(g, box) ==
    /\ g.kind # "none"
    /\ box.x1 <= g.x1 /\ g.x2 <= box.x2
    /\ box.y1 <= g.y1 /\ g.y2 <= box.y2

Intersects(g, box) ==
    /\ g.kind # "none"
    /\ g.x1 <= box.x2 /\ box.x1 <= g.x2
    /\ g.y1 <= box.y2 /\ box.y1 <= g.y2

\* the rows of zoning_districts.geojson: the attributes and the geometry
DistrictRow(zonedist, g) == [zonedist |-> zonedist, geometry |-> g]
Geometries ==
    { Rect(3, 2, 4, 3),     \* inside the Manhattan box
      Rect(0, 2, 3, 3),     \* overlaps it in part
      Rect(0, 0, 7, 7),     \* contains it
      Rect(0, 2, 2, 3),     \* touches an edge
      Rect(5, 3, 6, 4),     \* touches a corner
      Rect(3, 4, 4, 5),     \* above it
      Rect(6, 1, 7, 3),     \* right of it
      Rect(0, 0, 1, 1),     \* far from it
      NoGeometry }
DistrictRows == {DistrictRow(z, g) : z \in {"R6", "C4"}, g \in Geometries}
DistrictFiles ==
    { [status |-> "missing", rows |-> <<>>], [status |-> "unreadable", rows |-> <<>>] }
        \cup [status : {"ok"}, rows : SeqsUpTo(DistrictRows, MaxRows)]

TrafficRow(name, g) == [location |-> name, geometry |-> g]
TrafficFiles ==
    { [status |-> "missing", rows |-> <<>>],
      [status |-> "ok", rows |-> <<>>],
      [status |-> "ok", rows |-> <<TrafficRow("a", Pt(3, 2)), TrafficRow("b", Pt(6, 6))>>],
      [status |-> "ok", rows |-> <<TrafficRow("c", Pt(2, 1))>>] }

NoFrame == [loaded |-> FALSE, rows |-> <<>>]
Frame(rows) == [loaded |-> TRUE, rows |-> rows]

\* load_zoning_districts(): the frame, or None when the file is missing or
\* gpd.read_file raises
LoadZoningDistricts(file) == IF file.status = "ok" THEN Frame(file.rows) ELSE NoFrame

\* gdf[gdf.intersects(bbox)]
RECURSIVE Select(_, _)
Select(rows, box) ==
    IF rows = <<>> THEN <<>>
    ELSE IF Intersects(Head(rows).geometry, box)
         THEN <<Head(rows)>> \o Select(Tail(rows), box)
         ELSE Select(Tail(rows), box)

\* row.drop('geometry').to_dict()
DropGeometry(row) == [k \in (DOMAIN row) \ {"geometry"} |-> row[k]]

GeoIdle ==
    /\ districts_file = [status |-> "missing", rows |-> <<>>]
    /\ traffic_file = [status |-> "missing", rows |-> <<>>]
    /\ area_bounds = ManhattanBroadwayBounds
    /\ gdf = NoFrame
    /\ intersecting = <<>>
    /\ districts_data = <<>>
    /\ geo_pc = "idle"
    /\ traffic_data = <<>>
    /\ traffic_pc = "idle"

GeoInit ==
    /\ districts_file \in DistrictFiles
    /\ traffic_file \in TrafficFiles
    /\ area_bounds \in Areas
    /\ gdf = NoFrame
    /\ intersecting = <<>>
    /\ districts_data = <<>>
    /\ geo_pc = "load"
    /\ traffic_data = <<>>
    /\ traffic_pc = "call"

\* gdf = load_zoning_districts()
DistrictsLoad ==
    /\ geo_pc = "load"
    /\ gdf' = LoadZoningDistricts(districts_file)
    /\ geo_pc' = "loaded"
    /\ UNCHANGED <<districts_file, traffic_file, area_bounds, intersecting,
                   districts_data, traffic_data, traffic_pc>>
    /\ UNCHANGED <<chunkVars, parseVars, loadVars, searchVars, resolveVars, metaVars, packetVars, indexVars, concVars>>

\* if gdf is None: return []
DistrictsNoFrame ==
    /\ geo_pc = "loaded"
    /\ ~gdf.loaded
    /\ districts_data' = <<>>
    /\ geo_pc' = "returned"
    /\ UNCHANGED <<districts_file, traffic_file, area_bounds, gdf, intersecting,
                   traffic_data, traffic_pc>>
    /\ UNCHANGED <<chunkVars, parseVars, loadVars, searchVars, resolveVars, metaVars, packetVars, indexVars, concVars>>

\* area_bounds[...] raises KeyError and the exception leaves the function
DistrictsFilterRaises ==
    /\ geo_pc = "loaded"
    /\ gdf.loaded
    /\ DOMAIN area_bounds # BoundKeys
    /\ geo_pc' = "raised"
    /\ UNCHANGED <<districts_file, traffic_file, area_bounds, gdf, intersecting,
                   districts_data, traffic_data, traffic_pc>>
    /\ UNCHANGED <<chunkVars, parseVars, loadVars, searchVars, resolveVars, metaVars, packetVars, indexVars, concVars>>

\* area_bounds[...] raises KeyError inside the try: except Exception:
\* return []
DistrictsFilterFails ==
    /\ geo_pc = "loaded"
    /\ gdf.loaded
    /\ DOMAIN area_bounds # BoundKeys
    /\ districts_data' = <<>>
    /\ geo_pc' = "returned"
    /\ UNCHANGED <<districts_file, traffic_file, area_bounds, gdf, intersecting,
                   traffic_data, traffic_pc>>
    /\ UNCHANGED <<chunkVars, parseVars, loadVars, searchVars, resolveVars, metaVars, packetVars, indexVars, concVars>>

\* bbox = Polygon([...]); intersecting = gdf[gdf.intersects(bbox)]
DistrictsFilter ==
    /\ geo_pc = "loaded"
    /\ gdf.loaded
    /\ DOMAIN area_bounds = BoundKeys
    /\ intersecting' = Select(gdf.rows, DistrictsBox(area_bounds))
    /\ districts_data' = <<>>
    /\ geo_pc' = "rows"
    /\ UNCHANGED <<districts_file, traffic_file, area_bounds, gdf, traffic_data, traffic_pc>>
    /\ UNCHANGED <<chunkVars, parseVars, loadVars, searchVars, resolveVars, metaVars, packetVars, indexVars, concVars>>

\* for idx, row in intersecting.iterrows(): districts_data.append(...)
DistrictsAppendRow ==
    /\ geo_pc = "rows"
    /\ Len(districts_data) < Len(intersecting)
    /\ districts_data' =
          Append(districts_data, DropGeometry(intersecting[Len(districts_data) + 1]))
    /\ UNCHANGED <<districts_file, traffic_file, area_bounds, gdf, intersecting,
                   geo_pc, traffic_data, traffic_pc>>
    /\ UNCHANGED <<chunkVars, parseVars, loadVars, searchVars, resolveVars, metaVars, packetVars, indexVars, concVars>>

\* return districts_data
DistrictsReturn ==
    /\ geo_pc = "rows"
    /\ Len(districts_data) = Len(intersecting)
    /\ geo_pc' = "returned"
    /\ UNCHANGED <<districts_file, traffic_file, area_bounds, gdf, intersecting,
                   districts_data, traffic_data, traffic_pc>>
    /\ UNCHANGED <<chunkVars, parseVars, loadVars, searchVars, resolveVars, metaVars, packetVars, indexVars, concVars>>

\* get_traffic_counts_in_area: the load is commented out (line 148) and
\* gdf = None (line 149), so line 151 returns [] on every call
TrafficCall ==
    /\ traffic_pc = "call"
    /\ traffic_data' = <<>>
    /\ traffic_pc' = "returned"
    /\ UNCHANGED <<districts_file, traffic_file, area_bounds, gdf, intersecting,
                   districts_data, geo_pc>>
    /\ UNCHANGED <<chunkVars, parseVars, loadVars, searchVars, resolveVars, metaVars, packetVars, indexVars, concVars>>

GeoNext ==
    \/ DistrictsLoad
    \/ DistrictsNoFrame
    \/ DistrictsFilterFails
    \/ DistrictsFilter
    \/ DistrictsAppendRow
    \/ DistrictsReturn
    \/ TrafficCall

(***************************************************************************)
(* Properties of the spatial filter.                                       *)
(***************************************************************************)
GridPoints == (0..7) \X (0..7)

InRect(p, g) == g.x1 <= p[1] /\ p[1] <= g.x2 /\ g.y1 <= p[2] /\ p[2] <= g.y2

\* the geometry and the box have a point in common
SharePoint(g, box) ==
    g.kind # "none" /\ \E p \in GridPoints : InRect(p, g) /\ InRect(p, box)

\* the point lies within the box, off its boundary
StrictlyInside(g, box) ==
    /\ g.kind = "point"
    /\ box.x1 < g.x1 /\ g.x1 < box.x2
    /\ box.y1 < g.y1 /\ g.y1 < box.y2

\* the point lies outside the box and off its boundary
FullyOutside(g, box) == g.kind = "point" /\ ~InRect(<<g.x1, g.y1>>, box)

FullArea == DOMAIN area_bounds = BoundKeys

\* the records expected of the rows: those whose geometry has a point in
\* common with the box, in the order of the dataset, without the geometry
RECURSIVE ExpectedDistricts(_, _)
ExpectedDistricts(rows, box) ==
    IF rows = <<>> THEN <<>>
    ELSE IF SharePoint(Head(rows).geometry, box)
         THEN <<[zonedist |-> Head(rows).zonedist]>> \o ExpectedDistricts(Tail(rows), box)
         ELSE ExpectedDistricts(Tail(rows), box)

\* C12: get_traffic_counts_in_area returns the traffic records of the
\* dataset whose point lies within the box of the area: every point inside
\* is returned and every point fully outside is excluded.
C12_TrafficPointsWithin ==
    (traffic_pc = "returned" /\ traffic_file.status = "ok" /\ FullArea)
        => LET box == DistrictsBox(area_bounds)
           IN \A k \in 1..Len(traffic_file.rows) :
                 LET row == traffic_file.rows[k]
                     returned == \E j \in 1..Len(traffic_data) :
                                     traffic_data[j] = DropGeometry(row)
                 IN /\ StrictlyInside(row.geometry, box) => returned
                    /\ FullyOutside(row.geometry, box) => ~returned

\* C13: get_zoning_districts_in_area returns one record for exactly the
\* districts of the loaded dataset whose geometry intersects the box of the
\* area (partial overlap included, disjoint districts excluded), each with
\* every attribute of the district except its geometry.
C13_DistrictsIntersecting ==
    (geo_pc = "returned" /\ districts_file.status = "ok" /\ FullArea)
        => districts_data =
              ExpectedDistricts(districts_file.rows, DistrictsBox(area_bounds))

C13_Witness ==
    /\ geo_pc = "returned"
    /\ districts_file.status = "ok"
    /\ FullArea
    /\ Len(districts_file.rows) = 2
    /\ Len(districts_data) = 1
    /\ \E k \in 1..2 :
          LET g == districts_file.rows[k].geometry
          IN /\ Intersects(g, DistrictsBox(area_bounds))
             /\ ~IntersectsCovered(g, DistrictsBox(area_bounds))
             /\ districts_data[1] = [zonedist |-> districts_file.rows[k].zonedist]
    /\ \E k \in 1..2 : districts_file.rows[k].geometry.kind = "polygon"
                          /\ ~Intersects(districts_file.rows[k].geometry,
                                         DistrictsBox(area_bounds))

\* C18: get_zoning_districts_in_area and get_traffic_counts_in_area never
\* raise; when the dataset is missing or cannot be loaded, or the area lacks
\* one of its four bounds, each returns an empty list.
C18_SpatialFiltersNeverRaise ==
    /\ geo_pc # "raised"
    /\ traffic_pc # "raised"
    /\ (geo_pc = "returned" /\ (districts_file.status # "ok" \/ ~FullArea))
          => districts_data = <<>>
    /\ (traffic_pc = "returned" /\ (traffic_file.status # "ok" \/ ~FullArea))
          => traffic_data = <<>>

C18_Witness ==
    /\ geo_pc = "returned"
    /\ traffic_pc = "returned"
    /\ districts_file.status = "ok"
    /\ ~FullArea
    /\ \E k \in 1..Len(districts_file.rows) :
          Intersects(districts_file.rows[k].geometry, DistrictsBox(ManhattanBroadwayBounds))
    /\ districts_data = <<>>
    /\ traffic_data = <<>>

(***************************************************************************)
(* attach_metadata (utils/chunking.py).  A text is a sequence of           *)
(* characters, a dictionary a function on its keys.                        *)
(***************************************************************************)
MaxChunks == 2     \* chunks given to attach_metadata

ChunkTexts == {<<>>, <<"a">>, <<"a", " ", "b">>, <<"a", "b", " ", " ", "c">>}

EmptyDict == [k \in {} |-> 0]
BaseMetas ==
    { EmptyDict,
      [k \in {"source"} |-> <<"z", "r">>],
      [k \in {"text"} |-> <<"z", "z">>],
      [k \in {"text"} |-> <<"a">>],
      [k \in {"char_length", "token_estimate"} |-> 99],
      [k \in {"source", "text"} |-> <<"d", "o", "c">>] }

\* len(text.split()): the number of maximal runs of non-blank characters
WordCount(text) ==
    Cardinality({k \in 1..Len(text) :
                    text[k] # " " /\ (k = 1 \/ text[k - 1] = " ")})

\* tokenize_length(text): max(1, len(text.split())) without tiktoken; with
\* tiktoken the number of tokens of the encoding, which is at most the
\* number of characters
TokenizeLengths(text) ==
    {Max(1, WordCount(text))} \cup (IF text = <<>> THEN {0} ELSE 1..Len(text))

\* {"text": c, **base_meta, "char_length": len(c), "token_estimate": n}:
\* a later key replaces an earlier one
MetadataRecord(c, base, n) ==
    [k \in {"text", "char_length", "token_estimate"} \cup DOMAIN base |->
        IF k = "char_length" THEN Len(c)
        ELSE IF k = "token_estimate" THEN n
        ELSE IF k \in DOMAIN base THEN base[k]
        ELSE c]

MetaIdle ==
    /\ meta_chunks = <<>>
    /\ base_meta = EmptyDict
    /\ records = <<>>
    /\ meta_pc = "idle"

MetaInit ==
    /\ meta_chunks \in SeqsUpTo(ChunkTexts, MaxChunks)
    /\ base_meta \in BaseMetas
    /\ records = <<>>
    /\ meta_pc = "call"

\* one element of the list comprehension
MetaEmit ==
    /\ meta_pc = "call"
    /\ Len(records) < Len(meta_chunks)
    /\ LET c == meta_chunks[Len(records) + 1]
       IN \E n \in TokenizeLengths(c) :
             records' = Append(records, MetadataRecord(c, base_meta, n))
    /\ UNCHANGED <<meta_chunks, base_meta, meta_pc>>
    /\ UNCHANGED <<chunkVars, parseVars, loadVars, searchVars, resolveVars, geoVars, packetVars, indexVars, concVars>>

MetaReturn ==
    /\ meta_pc = "call"
    /\ Len(records) = Len(meta_chunks)
    /\ meta_pc' = "returned"
    /\ UNCHANGED <<meta_chunks, base_meta, records>>
    /\ UNCHANGED <<chunkVars, parseVars, loadVars, searchVars, resolveVars, geoVars, packetVars, indexVars, concVars>>

MetaNext ==
    \/ MetaEmit
    \/ MetaReturn

\* C19: every record emitted by attach_metadata has char_length equal to
\* the length of its text, and its text is the chunk it was built from,
\* whatever keys the base metadata carries.
C19_CharLengthOfText ==
    meta_pc = "returned"
        => /\ Len(records) = Len(meta_chunks)
           /\ \A k \in 1..Len(records) :
                 /\ records[k]["text"] = meta_chunks[k]
                 /\ records[k]["char_length"] = Len(records[k]["text"])

(***************************************************************************)
(* build_scenario_packet (retrieval/scenario.py).  The query, the files    *)
(* and the answers of the services are fixed by env; the function is       *)
(* called MaxCalls times in the same surroundings.                         *)
(***************************************************************************)
MaxCalls == 2      \* calls of build_scenario_packet

\* parse_scenario_query(query) as one function of the query
RECURSIVE ParseFrom(_, _)
ParseFrom(q, i) ==
    IF i > Len(PATTERNS) THEN InitialResult(q)
    ELSE LET m == Search(PATTERNS[i], Normalize(q))
         IN IF m.ok THEN ApplyMatch(InitialResult(q), GroupDict(m))
            ELSE ParseFrom(q, i + 1)

ParseScenarioQuery(q) ==
    LET r == ParseFrom(q, 1)
    IN IF r.city = None THEN [r EXCEPT !.city = DefaultCity] ELSE r

\* the exception search_zoning_chunks ends with, or "none": the services
\* fail at lines 96-107, line 113 fails on an answer without get that has
\* no matches
SearchError(service, answer) ==
    CASE service = "no_api_key" -> "RuntimeError"
      [] service = "embed_fails" -> "EmbeddingError"
      [] service = "query_fails" -> "QueryError"
      [] OTHER -> IF answer.shape = "attr_only" /\ answer.matches = <<>>
                  THEN "AttributeError"
                  ELSE "none"

\* get_zoning_districts_in_area(area) as one function of the file
DistrictsInArea(file, area) ==
    LET frame == LoadZoningDistricts(file)
    IN IF ~frame.loaded \/ DOMAIN area # BoundKeys THEN <<>>
       ELSE LET sel == Select(frame.rows, DistrictsBox(area))
            IN [k \in 1..Len(sel) |-> DropGeometry(sel[k])]

PacketCountingChunks(q, p, bounds, cs, ds, ts) ==
    [query |-> q,
     parsed_components |-> p,
     area_of_interest |-> [bounds |-> bounds, description |-> "Broadway corridor from 14th to 34th Street, Manhattan"],
     zoning_information |->
        [relevant_text_chunks |-> cs,
         affected_zoning_districts |-> ds,
         total_chunks_found |-> Len(cs),
         total_districts_in_area |-> Len(ds)],
     traffic_information |->
        [traffic_count_locations |-> ts, total_locations_in_area |-> Len(ts)],
     data_summary |->
        [total_data_points |-> Len(cs),
         data_types |-> <<"zoning_text", "zoning_districts", "traffic_counts">>,
         geographic_scope |-> "Manhattan Broadway corridor (14th-34th Streets)"]]

\* the dictionary scenario_packet of lines 55-77
Packet(q, p, bounds, cs, ds, ts) ==
    [query |-> q,
     parsed_components |-> p,
     area_of_interest |-> [bounds |-> bounds, description |-> "Broadway corridor from 14th to 34th Street, Manhattan"],
     zoning_information |->
        [relevant_text_chunks |-> cs,
         affected_zoning_districts |-> ds,
         total_chunks_found |-> Len(cs),
         total_districts_in_area |-> Len(ds)],
     traffic_information |->
        [traffic_count_locations |-> ts, total_locations_in_area |-> Len(ts)],
     data_summary |->
        [total_data_points |-> Len(cs) + Len(ds) + Len(ts),
         data_types |-> <<"zoning_text", "zoning_districts", "traffic_counts">>,
         geographic_scope |-> "Manhattan Broadway corridor (14th-34th Streets)"]]

NoPacket == Packet(<<>>, InitialResult(<<>>), ManhattanBroadwayBounds, <<>>, <<>>, <<>>)
Returned(packet) == [kind |-> "returned", error |-> "none", packet |-> packet]
Raised(error) == [kind |-> "raised", error |-> error, packet |-> NoPacket]

PacketQueries ==
    { <<"pedestrianize", "Broadway", "from", "14th", "street", "to", "34th", "street",
        "in", "New", "York">>,
      <<"add", "Bike", "lane", "on", "Broadway", "in", "NYC">>,
      <<"which", "roads", "were", "closed", "in", "2020">>,
      <<>> }
PacketCorpora ==
    { [exists |-> FALSE, lines |-> <<>>],
      [exists |-> TRUE, lines |-> <<Malformed, Record(None, <<"A">>)>>],
      [exists |-> TRUE, lines |-> <<Record(<<"vec_", "1">>, <<"A">>), Record(None, <<"B">>)>>] }
PacketAnswers ==
    { [shape |-> "mapping", matches |-> <<>>],
      [shape |-> "object", matches |-> <<>>],
      [shape |-> "attr_only", matches |-> <<>>],
      [shape |-> "attr_only", matches |->
          <<[id |-> FallbackId(1), score |-> 9, metadata |-> NoMeta]>>],
      [shape |-> "mapping", matches |->
          <<[id |-> <<"vec_", "1">>, score |-> 9, metadata |-> Meta(<<"M">>, None)],
            [id |-> <<"doc">>, score |-> 5, metadata |-> NoMeta]>>] }
PacketDistrictFiles ==
    { [status |-> "missing", rows |-> <<>>],
      [status |-> "unreadable", rows |-> <<>>],
      [status |-> "ok", rows |-> <<>>],
      [status |-> "ok", rows |->
          <<DistrictRow("R6", Rect(0, 2, 3, 3)), DistrictRow("C4", Rect(0, 0, 1, 1))>>] }
Services == {"ok", "no_api_key", "embed_fails", "query_fails"}
Envs ==
    [query : PacketQueries, corpus : PacketCorpora, service : Services,
     answer : PacketAnswers, districts_file : PacketDistrictFiles,
     traffic_file : TrafficFiles]

PacketIdle ==
    /\ env = [query |-> <<>>, corpus |-> [exists |-> FALSE, lines |-> <<>>],
              service |-> "ok", answer |-> [shape |-> "mapping", matches |-> <<>>],
              districts_file |-> [status |-> "missing", rows |-> <<>>],
              traffic_file |-> [status |-> "missing", rows |-> <<>>]]
    /\ call_no = 0
    /\ parsed = InitialResult(<<>>)
    /\ zoning_chunks = <<>>
    /\ zoning_districts = <<>>
    /\ traffic_counts = <<>>
    /\ outcomes = <<>>
    /\ packet_pc = "idle"

PacketInit ==
    /\ env \in Envs
    /\ call_no = 1
    /\ parsed = InitialResult(<<>>)
    /\ zoning_chunks = <<>>
    /\ zoning_districts = <<>>
    /\ traffic_counts = <<>>
    /\ outcomes = <<>>
    /\ packet_pc = "parse"

\* the call returns without parsing the query
PacketParseSkipped ==
    /\ packet_pc = "parse"
    /\ packet_pc' = "search"
    /\ UNCHANGED <<env, call_no, parsed, zoning_chunks, zoning_districts, traffic_counts, outcomes>>
    /\ UNCHANGED <<chunkVars, parseVars, loadVars, searchVars, resolveVars, geoVars, metaVars, indexVars, concVars>>

\* parse_scenario_query on each query of the model
ParsedOf == [q \in PacketQueries |-> ParseScenarioQuery(q)]

\* parsed = parse_scenario_query(query)
PacketParse ==
    /\ packet_pc = "parse"
    /\ parsed' = ParsedOf[env.query]
    /\ packet_pc' = "search"
    /\ UNCHANGED <<env, call_no, zoning_chunks, zoning_districts, traffic_counts, outcomes>>
    /\ UNCHANGED <<chunkVars, parseVars, loadVars, searchVars, resolveVars, geoVars, metaVars, indexVars, concVars>>

\* search_zoning_chunks(query, top_k=5) raises: no handler in
\* build_scenario_packet, the exception reaches the caller
PacketSearchRaises ==
    /\ packet_pc = "search"
    /\ SearchError(env.service, env.answer) # "none"
    /\ outcomes' = Append(outcomes, Raised(SearchError(env.service, env.answer)))
    /\ packet_pc' = "raised"
    /\ UNCHANGED <<env, call_no, parsed, zoning_chunks, zoning_districts, traffic_counts>>
    /\ UNCHANGED <<chunkVars, parseVars, loadVars, searchVars, resolveVars, geoVars, metaVars, indexVars, concVars>>

\* the same call with the items kept in a list that outlives the call
PacketSearchAppending ==
    /\ packet_pc = "search"
    /\ SearchError(env.service, env.answer) = "none"
    /\ zoning_chunks' =
          zoning_chunks \o Collect(env.answer.matches, LoadZoningChunks(env.corpus))
    /\ packet_pc' = "districts"
    /\ UNCHANGED <<env, call_no, parsed, zoning_districts, traffic_counts, outcomes>>
    /\ UNCHANGED <<chunkVars, parseVars, loadVars, searchVars, resolveVars, geoVars, metaVars, indexVars, concVars>>

\* zoning_chunks = search_zoning_chunks(query, top_k=5)
PacketSearch ==
    /\ packet_pc = "search"
    /\ SearchError(env.service, env.answer) = "none"
    /\ zoning_chunks' = Collect(env.answer.matches, LoadZoningChunks(env.corpus))
    /\ packet_pc' = "districts"
    /\ UNCHANGED <<env, call_no, parsed, zoning_districts, traffic_counts, outcomes>>
    /\ UNCHANGED <<chunkVars, parseVars, loadVars, searchVars, resolveVars, geoVars, metaVars, indexVars, concVars>>

\* the spatial filter applied only for a query that names a street
PacketDistrictsOfStreet ==
    /\ packet_pc = "districts"
    /\ zoning_districts' =
          IF parsed.street = None THEN <<>>
          ELSE DistrictsInArea(env.districts_file, ManhattanBroadwayBounds)
    /\ packet_pc' = "traffic"
    /\ UNCHANGED <<env, call_no, parsed, zoning_chunks, traffic_counts, outcomes>>
    /\ UNCHANGED <<chunkVars, parseVars, loadVars, searchVars, resolveVars, geoVars, metaVars, indexVars, concVars>>

\* area_bounds = create_manhattan_broadway_bounds();
\* zoning_districts = get_zoning_districts_in_area(area_bounds)
PacketDistricts ==
    /\ packet_pc = "districts"
    /\ zoning_districts' = DistrictsInArea(env.districts_file, ManhattanBroadwayBounds)
    /\ packet_pc' = "traffic"
    /\ UNCHANGED <<env, call_no, parsed, zoning_chunks, traffic_counts, outcomes>>
    /\ UNCHANGED <<chunkVars, parseVars, loadVars, searchVars, resolveVars, geoVars, metaVars, indexVars, concVars>>

\* traffic_counts = get_traffic_counts_in_area(area_bounds): [] on every call
PacketTraffic ==
    /\ packet_pc = "traffic"
    /\ traffic_counts' = <<>>
    /\ packet_pc' = "assemble"
    /\ UNCHANGED <<env, call_no, parsed, zoning_chunks, zoning_districts, outcomes>>
    /\ UNCHANGED <<chunkVars, parseVars, loadVars, searchVars, resolveVars, geoVars, metaVars, indexVars, concVars>>

\* scenario_packet = {...}; return scenario_packet
PacketAssemble ==
    /\ packet_pc = "assemble"
    /\ outcomes' =
          Append(outcomes,
                 Returned(Packet(env.query, parsed, ManhattanBroadwayBounds,
                                 zoning_chunks, zoning_districts, traffic_counts)))
    /\ packet_pc' = "returned"
    /\ UNCHANGED <<env, call_no, parsed, zoning_chunks, zoning_districts, traffic_counts>>
    /\ UNCHANGED <<chunkVars, parseVars, loadVars, searchVars, resolveVars, geoVars, metaVars, indexVars, concVars>>

\* the caller calls build_scenario_packet again with the same query
PacketCallAgain ==
    /\ packet_pc \in {"returned", "raised"}
    /\ call_no < MaxCalls
    /\ call_no' = call_no + 1
    /\ packet_pc' = "parse"
    /\ UNCHANGED <<env, parsed, zoning_chunks, zoning_districts, traffic_counts, outcomes>>
    /\ UNCHANGED <<chunkVars, parseVars, loadVars, searchVars, resolveVars, geoVars, metaVars, indexVars, concVars>>

PacketNext ==
    \/ PacketParse
    \/ PacketSearchRaises
    \/ PacketSearch
    \/ PacketDistricts
    \/ PacketTraffic
    \/ PacketAssemble
    \/ PacketCallAgain

(***************************************************************************)
(* Properties of build_scenario_packet.                                    *)
(***************************************************************************)
Sections ==
    {"query", "parsed_components", "area_of_interest", "zoning_information",
     "traffic_information", "data_summary"}

\* pinecone init, the embedding or the vector query failed
RetrievalFailed == env.service # "ok"

\* C14: build_scenario_packet raises exactly when semantic retrieval
\* (pinecone init, embedding or vector query) failed; otherwise it returns
\* a packet with every section, in which a failure of the district or
\* traffic filter shows as an empty list.
C14_RaisesIffRetrievalFailed ==
    \A k \in 1..Len(outcomes) :
        /\ (outcomes[k].kind = "raised") <=> RetrievalFailed
        /\ outcomes[k].kind = "returned"
              => /\ DOMAIN outcomes[k].packet = Sections
                 /\ env.districts_file.status # "ok"
                       => outcomes[k].packet.zoning_information.affected_zoning_districts = <<>>
                 /\ env.traffic_file.status # "ok"
                       => outcomes[k].packet.traffic_information.traffic_count_locations = <<>>

\* C16: in every packet returned, total_data_points is the sum of the
\* lengths of relevant_text_chunks, affected_zoning_districts and
\* traffic_count_locations, and each of total_chunks_found,
\* total_districts_in_area, total_locations_in_area is the length of its
\* own list.
C16_TotalsAreLengths ==
    \A k \in 1..Len(outcomes) :
        outcomes[k].kind = "returned"
            => LET p == outcomes[k].packet
                   cs == p.zoning_information.relevant_text_chunks
                   ds == p.zoning_information.affected_zoning_districts
                   ts == p.traffic_information.traffic_count_locations
               IN /\ p.data_summary.total_data_points = Len(cs) + Len(ds) + Len(ts)
                  /\ p.zoning_information.total_chunks_found = Len(cs)
                  /\ p.zoning_information.total_districts_in_area = Len(ds)
                  /\ p.traffic_information.total_locations_in_area = Len(ts)

C16_Witness ==
    /\ packet_pc = "returned"
    /\ LET p == outcomes[Len(outcomes)].packet
       IN /\ Len(p.zoning_information.relevant_text_chunks) = 2
          /\ Len(p.zoning_information.affected_zoning_districts) = 1
          /\ p.data_summary.total_data_points = 3

\* C24: in every run of build_scenario_packet the parse of the query is
\* complete before the semantic retrieval and before either spatial filter
\* starts, and the parsed_components of the packet are exactly that parse
\* result.
C24_ParseBeforeRetrieval ==
    /\ packet_pc \in {"search", "districts", "traffic", "assemble"}
          => parsed = ParseScenarioQuery(env.query)
    /\ (call_no = 1 /\ packet_pc = "parse")
          => (zoning_chunks = <<>> /\ zoning_districts = <<>> /\ outcomes = <<>>)
    /\ \A k \in 1..Len(outcomes) :
          outcomes[k].kind = "returned"
              => outcomes[k].packet.parsed_components = ParseScenarioQuery(env.query)

C24_Witness ==
    /\ call_no = 1
    /\ packet_pc = "returned"
    /\ outcomes[1].kind = "returned"
    /\ outcomes[1].packet.parsed_components = parsed
    /\ parsed.street = <<"Broadway">>
    /\ parsed.to_cross # None
    /\ Len(zoning_chunks) = 2
    /\ Len(zoning_districts) = 1

\* C25: the area of interest does not depend on the query: every packet
\* carries the fixed Manhattan Broadway box, both spatial filters receive
\* that box, and so the district list and the traffic list of a packet are
\* those of the dataset files alone, the same for any two queries.
C25_AreaIndependentOfQuery ==
    \A k \in 1..Len(outcomes) :
        outcomes[k].kind = "returned"
            => LET p == outcomes[k].packet
               IN /\ p.area_of_interest.bounds = ManhattanBroadwayBounds
                  /\ p.zoning_information.affected_zoning_districts
                        = DistrictsInArea(env.districts_file, ManhattanBroadwayBounds)
                  /\ p.traffic_information.traffic_count_locations = <<>>

C25_Witness ==
    /\ packet_pc = "returned"
    /\ outcomes[Len(outcomes)].kind = "returned"
    /\ env.query # <<>>
    /\ outcomes[Len(outcomes)].packet.parsed_components.street = None
    /\ Len(outcomes[Len(outcomes)].packet.zoning_information.affected_zoning_districts) = 1

\* C26: every call of build_scenario_packet eventually completes, returning
\* or raising, even if the embedding service, the vector index or a dataset
\* load never answers.
C26_EveryCallCompletes == <>(packet_pc \in {"returned", "raised"})

\* packet.get(key, default)
Get(packet, key, default) == IF key \in DOMAIN packet THEN packet[key] ELSE default

\* what summarize of scripts/test_scenario.py reads from a packet: the
\* parsed intent under "parsed" and the zoning matches under
\* "zoning_references"
Summarize(packet) ==
    [parsed |-> Get(packet, "parsed", EmptyDict),
     zoning |-> Get(packet, "zoning_references", <<>>)]

\* C29: the packet exposes the fields the test script of the repository
\* reads: the parsed intent under the top-level key "parsed" and the zoning
\* matches under the top-level key "zoning_references".
C29_ScriptFieldsExposed ==
    \A k \in 1..Len(outcomes) :
        outcomes[k].kind = "returned"
            => LET p == outcomes[k].packet
               IN /\ "parsed" \in DOMAIN p
                  /\ "zoning_references" \in DOMAIN p
                  /\ DOMAIN Summarize(p).parsed = DOMAIN p.parsed_components
                  /\ Len(Summarize(p).zoning)
                        = Len(p.zoning_information.relevant_text_chunks)

\* C20: two calls of build_scenario_packet with the same query, files and
\* answers of the services end alike: both raise the same error or both
\* return packets that are equal field by field.
C20_RepeatedCallsAgree ==
    Len(outcomes) >= 2
        => \A k \in 2..Len(outcomes) :
              /\ outcomes[k].kind = outcomes[1].kind
              /\ outcomes[k].error = outcomes[1].error
              /\ outcomes[k].packet = outcomes[1].packet

C20_Witness ==
    /\ Len(outcomes) = 2
    /\ outcomes[1].kind = "returned"
    /\ outcomes[2].kind = "returned"
    /\ outcomes[1].packet.parsed_components.action # None
    /\ Len(outcomes[2].packet.zoning_information.relevant_text_chunks) = 2
    /\ Len(outcomes[2].packet.zoning_information.affected_zoning_districts) = 1
    /\ outcomes[1].packet = outcomes[2].packet

(***************************************************************************)
(* index_jsonl and index_documents, followed by the resolution of an id     *)
(* the index returns.  A record with id None has no "id" key; the id <<>>   *)
(* is the empty string.  The vector of a record is not modelled: an upsert  *)
(* is the id and the line of the record.                                    *)
(***************************************************************************)
\* f"doc-{i}"
DocId(i) == <<"doc-">> \o Digits(i)

\* d = json.loads(line); if "id" not in d: d["id"] = f"zoning-{i}"
IndexDoc(i, line) ==
    [id |-> IF line.id = None THEN FallbackId(i) ELSE line.id,
     text |-> line.text,
     line |-> i]

\* vid = doc.get("id") or f"doc-{i}"
Upsert(i, doc) == [id |-> IF Truthy(doc.id) THEN doc.id ELSE DocId(i), line |-> doc.line]

NoHit == [id |-> None, line |-> 0, text |-> None]

IndexIdle ==
    /\ index_file = [exists |-> FALSE, lines |-> <<>>]
    /\ docs = <<>>
    /\ upserts = <<>>
    /\ hit = NoHit
    /\ index_pc = "idle"

IndexInit ==
    /\ index_file \in [exists : {TRUE}, lines : SeqsUpTo(Lines, MaxLines)]
    /\ docs = <<>>
    /\ upserts = <<>>
    /\ hit = NoHit
    /\ index_pc = "read"

\* for i, line in enumerate(f): d = json.loads(line); ...; docs.append(d)
IndexReadLine ==
    /\ index_pc = "read"
    /\ Len(docs) < Len(index_file.lines)
    /\ index_file.lines[Len(docs) + 1].kind = "record"
    /\ docs' = Append(docs, IndexDoc(Len(docs), index_file.lines[Len(docs) + 1]))
    /\ UNCHANGED <<index_file, upserts, hit, index_pc>>
    /\ UNCHANGED <<chunkVars, parseVars, loadVars, searchVars, resolveVars, geoVars, metaVars, packetVars, concVars>>

\* json.loads raises on a blank or malformed line, d["id"] = ... raises on
\* a line that is JSON but not an object: no handler in index_jsonl
IndexReadRaises ==
    /\ index_pc = "read"
    /\ Len(docs) < Len(index_file.lines)
    /\ index_file.lines[Len(docs) + 1].kind # "record"
    /\ index_pc' = "raised"
    /\ UNCHANGED <<index_file, docs, upserts, hit>>
    /\ UNCHANGED <<chunkVars, parseVars, loadVars, searchVars, resolveVars, geoVars, metaVars, packetVars, concVars>>

\* return index_documents(docs, ...)
IndexReadDone ==
    /\ index_pc = "read"
    /\ Len(docs) = Len(index_file.lines)
    /\ index_pc' = "index"
    /\ UNCHANGED <<index_file, docs, upserts, hit>>
    /\ UNCHANGED <<chunkVars, parseVars, loadVars, searchVars, resolveVars, geoVars, metaVars, packetVars, concVars>>

\* texts = [d["text"] for d in docs] raises KeyError for a record without
\* a text
IndexDocumentsRaises ==
    /\ index_pc = "index"
    /\ \E k \in 1..Len(docs) : docs[k].text = None
    /\ index_pc' = "raised"
    /\ UNCHANGED <<index_file, docs, upserts, hit>>
    /\ UNCHANGED <<chunkVars, parseVars, loadVars, searchVars, resolveVars, geoVars, metaVars, packetVars, concVars>>

\* index_documents: one upsert per document, in the order of docs
IndexDocuments ==
    /\ index_pc = "index"
    /\ \A k \in 1..Len(docs) : docs[k].text # None
    /\ upserts' = [k \in 1..Len(docs) |-> Upsert(k - 1, docs[k])]
    /\ index_pc' = "indexed"
    /\ UNCHANGED <<index_file, docs, hit>>
    /\ UNCHANGED <<chunkVars, parseVars, loadVars, searchVars, resolveVars, geoVars, metaVars, packetVars, concVars>>

\* search_zoning_chunks over the same file: the index returns the id of an
\* upserted vector, whose metadata has no text, and _map_id_to_text
\* resolves it against _load_zoning_chunks()
IndexResolve ==
    /\ index_pc = "indexed"
    /\ \E k \in 1..Len(upserts) :
          hit' = [id |-> upserts[k].id,
                  line |-> upserts[k].line,
                  text |-> MapIdToText(upserts[k].id, NoMeta, LoadZoningChunks(index_file))]
    /\ index_pc' = "resolved"
    /\ UNCHANGED <<index_file, docs, upserts>>
    /\ UNCHANGED <<chunkVars, parseVars, loadVars, searchVars, resolveVars, geoVars, metaVars, packetVars, concVars>>

IndexNext ==
    \/ IndexReadLine
    \/ IndexReadRaises
    \/ IndexReadDone
    \/ IndexDocumentsRaises
    \/ IndexDocuments
    \/ IndexResolve

\* C30: indexing and retrieval agree on the ids: the id under which
\* index_jsonl upserts a record (its explicit id, else "zoning-<line
\* ordinal>") is resolved by the retriever over the same file to the text of
\* that record, never to the sentinel and never to the text of another
\* record.
C30_UpsertIdResolvesToRecord ==
    index_pc = "resolved" => hit.text = index_file.lines[hit.line + 1].text

(***************************************************************************)
(* Calls of build_scenario_packet that run at the same time, e.g. in the   *)
(* threads of a server.  Every call has its own query and its own locals;  *)
(* the files and the state of the services are the same for all.  A step   *)
(* of a call is one statement of build_scenario_packet.                    *)
(***************************************************************************)
Callers == {"a", "b"}

ConcQueries ==
    { <<"add", "Bike", "lane", "on", "Broadway", "in", "NYC">>,
      <<"which", "roads", "were", "closed", "in", "2020">> }
ConcAnswers ==
    { [shape |-> "mapping", matches |-> <<>>],
      [shape |-> "attr_only", matches |-> <<>>],
      [shape |-> "mapping", matches |->
          <<[id |-> <<"vec_", "1">>, score |-> 9, metadata |-> Meta(<<"M">>, None)],
            [id |-> <<"doc">>, score |-> 5, metadata |-> NoMeta]>>] }
ConcCorpora ==
    { [exists |-> FALSE, lines |-> <<>>],
      [exists |-> TRUE, lines |-> <<Record(<<"vec_", "1">>, <<"A">>), Record(None, <<"B">>)>>] }
ConcDistrictFiles ==
    { [status |-> "missing", rows |-> <<>>],
      [status |-> "ok", rows |->
          <<DistrictRow("R6", Rect(0, 2, 3, 3)), DistrictRow("C4", Rect(0, 0, 1, 1))>>] }

\* the locals of a call that has not started
NewCall(q, answer) ==
    [query |-> q, answer |-> answer, pc |-> "parse",
     parsed |-> InitialResult(<<>>), zoning_chunks |-> <<>>,
     zoning_districts |-> <<>>, traffic_counts |-> <<>>,
     outcome |-> Raised("none")]

ConcIdle ==
    /\ shared_files = [corpus |-> [exists |-> FALSE, lines |-> <<>>],
                       districts_file |-> [status |-> "missing", rows |-> <<>>],
                       service |-> "ok"]
    /\ callers = [c \in {} |-> NewCall(<<>>, [shape |-> "mapping", matches |-> <<>>])]

ConcInit ==
    /\ shared_files \in [corpus : ConcCorpora, districts_file : ConcDistrictFiles,
                         service : {"ok", "query_fails"}]
    /\ \E qs \in [Callers -> ConcQueries], as \in [Callers -> ConcAnswers] :
          callers = [c \in Callers |-> NewCall(qs[c], as[c])]

\* parsed = parse_scenario_query(query), in one of the calls
ConcParse ==
    /\ \E c \in Callers :
          /\ callers[c].pc = "parse"
          /\ callers' = [callers EXCEPT ![c].parsed = ParsedOf[callers[c].query],
                                        ![c].pc = "search"]
    /\ UNCHANGED shared_files
    /\ UNCHANGED <<chunkVars, parseVars, loadVars, searchVars, resolveVars, geoVars, metaVars, packetVars, indexVars>>

\* search_zoning_chunks raises in one of the calls
ConcSearchRaises ==
    /\ \E c \in Callers :
          /\ callers[c].pc = "search"
          /\ SearchError(shared_files.service, callers[c].answer) # "none"
          /\ callers' =
                [callers EXCEPT
                    ![c].outcome = Raised(SearchError(shared_files.service, callers[c].answer)),
                    ![c].pc = "raised"]
    /\ UNCHANGED shared_files
    /\ UNCHANGED <<chunkVars, parseVars, loadVars, searchVars, resolveVars, geoVars, metaVars, packetVars, indexVars>>

\* the search with its items kept in one list that all the calls share
ConcSearchSharedItems ==
    /\ \E c \in Callers :
          /\ callers[c].pc = "search"
          /\ SearchError(shared_files.service, callers[c].answer) = "none"
          /\ LET other == CHOOSE d \in Callers : d # c
             IN callers' =
                  [callers EXCEPT
                      ![c].zoning_chunks =
                          callers[other].zoning_chunks
                              \o Collect(callers[c].answer.matches,
                                         LoadZoningChunks(shared_files.corpus)),
                      ![c].pc = "districts"]
    /\ UNCHANGED shared_files
    /\ UNCHANGED <<chunkVars, parseVars, loadVars, searchVars, resolveVars, geoVars, metaVars, packetVars, indexVars>>

\* zoning_chunks = search_zoning_chunks(query, top_k=5): the corpus file is
\* read into a map of the call, the items are a list of the call
ConcSearch ==
    /\ \E c \in Callers :
          /\ callers[c].pc = "search"
          /\ SearchError(shared_files.service, callers[c].answer) = "none"
          /\ callers' =
                [callers EXCEPT
                    ![c].zoning_chunks =
                        Collect(callers[c].answer.matches,
                                LoadZoningChunks(shared_files.corpus)),
                    ![c].pc = "districts"]
    /\ UNCHANGED shared_files
    /\ UNCHANGED <<chunkVars, parseVars, loadVars, searchVars, resolveVars, geoVars, metaVars, packetVars, indexVars>>

\* zoning_districts = get_zoning_districts_in_area(area_bounds)
ConcDistricts ==
    /\ \E c \in Callers :
          /\ callers[c].pc = "districts"
          /\ callers' =
                [callers EXCEPT
                    ![c].zoning_districts =
                        DistrictsInArea(shared_files.districts_file, ManhattanBroadwayBounds),
                    ![c].pc = "traffic"]
    /\ UNCHANGED shared_files
    /\ UNCHANGED <<chunkVars, parseVars, loadVars, searchVars, resolveVars, geoVars, metaVars, packetVars, indexVars>>

\* traffic_counts = get_traffic_counts_in_area(area_bounds)
ConcTraffic ==
    /\ \E c \in Callers :
          /\ callers[c].pc = "traffic"
          /\ callers' = [callers EXCEPT ![c].traffic_counts = <<>>, ![c].pc = "assemble"]
    /\ UNCHANGED shared_files
    /\ UNCHANGED <<chunkVars, parseVars, loadVars, searchVars, resolveVars, geoVars, metaVars, packetVars, indexVars>>

\* scenario_packet = {...}; return scenario_packet
ConcAssemble ==
    /\ \E c \in Callers :
          /\ callers[c].pc = "assemble"
          /\ callers' =
                [callers EXCEPT
                    ![c].outcome =
                        Returned(Packet(callers[c].query, callers[c].parsed,
                                        ManhattanBroadwayBounds, callers[c].zoning_chunks,
                                        callers[c].zoning_districts,
                                        callers[c].traffic_counts)),
                    ![c].pc = "returned"]
    /\ UNCHANGED shared_files
    /\ UNCHANGED <<chunkVars, parseVars, loadVars, searchVars, resolveVars, geoVars, metaVars, packetVars, indexVars>>

ConcNext ==
    \/ ConcParse
    \/ ConcSearchRaises
    \/ ConcSearch
    \/ ConcDistricts
    \/ ConcTraffic
    \/ ConcAssemble

\* what build_scenario_packet(q) returns or raises when it runs alone on the
\* files and services of the state, the index answering with answer
Alone(q, answer) ==
    IF SearchError(shared_files.service, answer) # "none"
    THEN Raised(SearchError(shared_files.service, answer))
    ELSE Returned(Packet(q, ParseScenarioQuery(q), ManhattanBroadwayBounds,
                         Collect(answer.matches, LoadZoningChunks(shared_files.corpus)),
                         DistrictsInArea(shared_files.districts_file, ManhattanBroadwayBounds),
                         <<>>))

\* C28: whatever the interleaving of the statements of two concurrent calls
\* of build_scenario_packet, every call ends with the packet (or the error)
\* it ends with when it runs alone; no call writes to the corpus or dataset
\* files.
C28_ConcurrentCallsIndependent ==
    /\ [](\A c \in DOMAIN callers :
              callers[c].pc \in {"returned", "raised"}
                  => callers[c].outcome = Alone(callers[c].query, callers[c].answer))
    /\ [][shared_files' = shared_files]_vars

C28_Witness ==
    /\ callers["a"].pc = "returned"
    /\ callers["b"].pc = "traffic"
    /\ callers["a"].query # callers["b"].query
    /\ Len(callers["a"].outcome.packet.zoning_information.relevant_text_chunks) = 2
    /\ callers["b"].zoning_chunks = <<>>
    /\ callers["a"].outcome.packet.parsed_components.street # None

\* the components other than the segmenter, the parser and the retriever
LaterIdle == ResolveIdle /\ GeoIdle /\ MetaIdle /\ PacketIdle /\ IndexIdle /\ ConcIdle

InitChunk == ChunkInit /\ ParseIdle /\ LoadIdle /\ SearchIdle /\ LaterIdle
SpecChunk == InitChunk /\ [][ChunkNext]_vars

\* chunk_text runs in the caller's thread and nothing suspends its loop: an
\* iteration that can be taken is taken
SpecChunkFair == InitChunk /\ [][ChunkNext]_vars /\ WF_vars(ChunkNext)

InitParse == ParseInit /\ ChunkIdle /\ LoadIdle /\ SearchIdle /\ LaterIdle
SpecParse == InitParse /\ [][ParseNext]_vars

InitLoad == LoadInit /\ ChunkIdle /\ ParseIdle /\ SearchIdle /\ LaterIdle
SpecLoad == InitLoad /\ [][LoadNext]_vars

InitSearch == SearchInit /\ ChunkIdle /\ ParseIdle /\ LaterIdle
SpecSearch == InitSearch /\ [][SearchNext]_vars

InitResolve ==
    /\ ResolveInit /\ ChunkIdle /\ ParseIdle /\ LoadIdle /\ SearchIdle
    /\ GeoIdle /\ MetaIdle /\ PacketIdle
    /\ IndexIdle /\ ConcIdle
SpecResolve == InitResolve /\ [][ResolveNext]_vars

InitGeo ==
    /\ GeoInit /\ ChunkIdle /\ ParseIdle /\ LoadIdle /\ SearchIdle
    /\ ResolveIdle /\ MetaIdle /\ PacketIdle
    /\ IndexIdle /\ ConcIdle
SpecGeo == InitGeo /\ [][GeoNext]_vars

InitMeta ==
    /\ MetaInit /\ ChunkIdle /\ ParseIdle /\ LoadIdle /\ SearchIdle
    /\ ResolveIdle /\ GeoIdle /\ PacketIdle
    /\ IndexIdle /\ ConcIdle
SpecMeta == InitMeta /\ [][MetaNext]_vars

InitPacket ==
    /\ PacketInit /\ ChunkIdle /\ ParseIdle /\ LoadIdle /\ SearchIdle
    /\ ResolveIdle /\ GeoIdle /\ MetaIdle
    /\ IndexIdle /\ ConcIdle
SpecPacket == InitPacket /\ [][PacketNext]_vars

\* build_scenario_packet runs its own statements one after the other without
\* being suspended; search_zoning_chunks and get_zoning_districts_in_area go
\* on only when the embedding model, the index and the dataset reader
\* answer, and no call sets a timeout (zoning_search.py:100, 103;
\* geospatial.py:68), so nothing makes those steps happen
SpecPacketWaiting ==
    /\ InitPacket
    /\ [][PacketNext]_vars
    /\ WF_vars(PacketParse)
    /\ WF_vars(PacketTraffic)
    /\ WF_vars(PacketAssemble)

InitIndex ==
    /\ IndexInit /\ ChunkIdle /\ ParseIdle /\ LoadIdle /\ SearchIdle
    /\ ResolveIdle /\ GeoIdle /\ MetaIdle /\ PacketIdle /\ ConcIdle
SpecIndex == InitIndex /\ [][IndexNext]_vars

InitConc ==
    /\ ConcInit /\ ChunkIdle /\ ParseIdle /\ LoadIdle /\ SearchIdle
    /\ ResolveIdle /\ GeoIdle /\ MetaIdle /\ PacketIdle /\ IndexIdle
SpecConc == InitConc /\ [][ConcNext]_vars

====
